---- MODULE Spec2Model ----
(***************************************************************************)
(* Model of the candle-light controller (DEV_CandleLight).                 *)
(*                                                                         *)
(* Part 1: the power-button state machine, handlePowerButton(), as it is   *)
(* written in src/src/CandleLight.cpp.  One step of the model is one call  *)
(* of handlePowerButton(): the raw pin is read, millis() is read, the      *)
(* switch on buttonState runs, and the reading is saved.                   *)
(*                                                                         *)
(* millis() is an unsigned 32-bit counter.  A 32-bit value is kept as a    *)
(* pair <<hi, lo>> of 16-bit limbs so that additions and subtractions wrap *)
(* at 2^32 exactly as uint32_t arithmetic does.                            *)
(*                                                                         *)
(* Part 2: the animation, DEV_CandleLight::loop() and applyFlicker().  One *)
(* step is one call of loop(): the button, the rate limit, and the frame.  *)
(* A HomeKit write is a step of its own.                                   *)
(*                                                                         *)
(* Part 3: the arithmetic of the flicker engine as pure functions: the     *)
(* brightness-to-LED-count conversion and the exponential smoothing.       *)
(* float values are kept as integers in units of a power of two chosen so  *)
(* that every float in the range concerned is a whole number of units, and *)
(* every operation rounds to the 24-bit significand as IEEE-754 single     *)
(* arithmetic does.                                                        *)
(***************************************************************************)
EXTENDS Integers, Sequences, FiniteSets, TLC

\* ------------------------------------------------------------------------
\* Configuration constants (include/config.h)
\* ------------------------------------------------------------------------
DEBOUNCE_DELAY == 50

LONG_PRESS_DURATION == 3000

\* Arduino pin levels as they are stored in a bool; the button is active LOW
HIGH == TRUE

LOW == FALSE

\* ------------------------------------------------------------------------
\* Bounds of the model
\* ------------------------------------------------------------------------
\* number of handlePowerButton() calls in one run
MaxSamples == 8

\* length in ms of a scripted scenario
ScenarioEnd == 3600

\* number of DEV_CandleLight::loop() calls in one run of the whole loop
MaxLoops == 4

\* number of HomeKit writes in one run of the whole loop
MaxUpdates == 1

\* ------------------------------------------------------------------------
\* uint32_t arithmetic on <<hi, lo>> limb pairs
\* ------------------------------------------------------------------------
Limb == 65536

U32(n) == <<(n \div Limb) % Limb, n % Limb>>

U32Add(a, n) ==
    LET s == a[2] + n
    IN  <<(a[1] + (s \div Limb)) % Limb, s % Limb>>

\* variant: a difference that stops at 0 instead of wrapping
U32Sub_Saturating(a, b) ==
    IF a[1] < b[1] \/ (a[1] = b[1] /\ a[2] < b[2])
      THEN <<0, 0>>
      ELSE <<(a[1] - b[1] - (IF a[2] < b[2] THEN 1 ELSE 0)) % Limb, (a[2] - b[2]) % Limb>>

U32Sub(a, b) ==
    LET borrow == IF a[2] < b[2] THEN 1 ELSE 0
    IN  <<(a[1] - b[1] - borrow) % Limb, (a[2] - b[2]) % Limb>>

\* a >= n for an unsigned 32-bit a and a small constant n
U32Ge(a, n) ==
    \/ a[1] > n \div Limb
    \/ a[1] = n \div Limb /\ a[2] >= n % Limb

\* ------------------------------------------------------------------------
\* Inputs
\* ------------------------------------------------------------------------
\* milliseconds between two consecutive calls of handlePowerButton()
Steps == {25, 50, 2950}

\* value of millis() at the first call: just after boot, or shortly before
\* the counter wraps from 2^32 - 1 to 0
BootTimes == {U32(0), <<Limb - 1, Limb - 60>>}

\* milliseconds between two calls when the loop polls without blocking
PollSteps == {5, 10}

MaxPollStep == CHOOSE m \in PollSteps : \A d \in PollSteps : d <= m

\* clock at which the scripted input first goes active
PressEdge == 100

\* the scripted press bounces: inactive again off ms after the first active
\* edge, active again on ms after it, both inside the debounce window
BounceOffs == {10, 20}

BounceOns == {30, 45}

\* hold of the end-to-end scenario
HoldMs == 3010

\* ------------------------------------------------------------------------
\* Flicker engine: configuration constants (include/config.h)
\* ------------------------------------------------------------------------
LED_LENGTH == 8

NUM_STRIPS == 2

DEFAULT_HUE == 25

DEFAULT_SATURATION == 100

DEFAULT_BRIGHTNESS == 100

\* FLICKER_SMOOTHING is 0.75 = 3/4, exact in binary floating point
FLICKER_SMOOTHING == <<3, 4>>

UPDATE_INTERVAL == 60

FLICKER_VARIATION_MIN == -40

FLICKER_VARIATION_MAX == 20

FLICKER_BRIGHTNESS_MIN == 30

FLICKER_BRIGHTNESS_MAX == 120

FLICKER_HUE_MIN == -8

FLICKER_HUE_MAX == 15

\* ------------------------------------------------------------------------
\* C arithmetic
\* ------------------------------------------------------------------------
Abs(x) == IF x < 0 THEN -x ELSE x

\* integer division of C: the quotient is truncated toward zero
TruncDiv(a, b) ==
    IF (a >= 0) = (b > 0) THEN Abs(a) \div Abs(b) ELSE -(Abs(a) \div Abs(b))

\* remainder of C: a - b * TruncDiv(a, b), it has the sign of a
TruncMod(a, b) == a - b * TruncDiv(a, b)

\* conversion to uint8_t
Uint8(x) == x % 256

\* Arduino constrain(amt, low, high)
constrain(amt, low, high) == IF amt < low THEN low ELSE IF amt > high THEN high ELSE amt

\* variant: the division comes before the multiplication
map_DivideFirst(x, in_min, in_max, out_min, out_max) ==
    TruncDiv(x - in_min, in_max - in_min) * (out_max - out_min) + out_min

\* Arduino map(x, in_min, in_max, out_min, out_max), in integer arithmetic
map(x, in_min, in_max, out_min, out_max) ==
    TruncDiv((x - in_min) * (out_max - out_min), in_max - in_min) + out_min

\* ------------------------------------------------------------------------
\* float values of the brightness smoothing.
\*
\* A brightness is kept as an integer number of BTick = 2^-18 units.  An
\* IEEE-754 single has a 24-bit significand: in [32, 64) its values are the
\* multiples of 2^-18, in [64, 128) the multiples of 2^-17, and so on up;
\* every brightness the engine stores lies in [32, 128).  Magnitudes below
\* 32 are used only where the results are multiples of 2^-18.
\* ------------------------------------------------------------------------
BTick == 262144

\* the float of an integer
BFloat(n) == n * BTick

\* spacing, in quarter BTicks, of the floats around the magnitude a (also in
\* quarter BTicks): 2^(e-23) for a value in [2^e, 2^(e+1))
RECURSIVE Quantum(_)
Quantum(a) == IF a < 256 * BTick THEN 4 ELSE 2 * Quantum(a \div 2)

\* round-to-nearest, ties to even: q4 is an exact value in quarter BTicks,
\* the result is the nearest float in BTicks
ToFloat(q4) ==
    LET a    == Abs(q4)
        q    == Quantum(a)
        k    == a \div q
        r    == a % q
        up   == 2 * r > q \/ (2 * r = q /\ k % 2 = 1)
        m    == (IF up THEN k + 1 ELSE k) * (q \div 4)
    IN  IF q4 < 0 THEN -m ELSE m

\* (int) of a float: truncation toward zero
ToInt(f) == TruncDiv(f, BTick)

\* variant: the target is weighted 1 - (int)FLICKER_SMOOTHING = 1
calculateSmoothedBrightness_IntegerWeight(target, previous) ==
    ToFloat(FLICKER_SMOOTHING[1] * previous + FLICKER_SMOOTHING[2] * target)

\* variant: the result is truncated to an integer
calculateSmoothedBrightness_Truncated(target, previous) ==
    BFloat(ToInt(ToFloat(FLICKER_SMOOTHING[1] * previous
                         + (FLICKER_SMOOTHING[2] - FLICKER_SMOOTHING[1]) * target)))

\* variant: both terms take the previous value
calculateSmoothedBrightness_PreviousTwice(target, previous) ==
    ToFloat(FLICKER_SMOOTHING[1] * previous
            + (FLICKER_SMOOTHING[2] - FLICKER_SMOOTHING[1]) * previous)

\* DEV_CandleLight::calculateSmoothedBrightness(): the operands are widened
\* to double, where 0.75 * previous, 0.25 * target and their sum are exact
\* (at most 29 significant bits), and the sum is rounded once to float on
\* return.  The exact sum is (3 * previous + target) / 4.
calculateSmoothedBrightness(target, previous) ==
    ToFloat(FLICKER_SMOOTHING[1] * previous
            + (FLICKER_SMOOTHING[2] - FLICKER_SMOOTHING[1]) * target)

\* ------------------------------------------------------------------------
\* float values of the LED count.
\*
\* numLEDsFloat and fraction are kept as integer numbers of CTick = 2^-27
\* units: a float in [2^e, 2^(e+1)) is a multiple of 2^(e-23), so every float
\* in [2^-4, 16) is a whole number of CTicks.
\* ------------------------------------------------------------------------
CTick == 134217728

RECURSIVE Pow2(_)
Pow2(n) == IF n = 0 THEN 1 ELSE 2 * Pow2(n - 1)

\* the e in -4 .. 3 with 2^e <= k / 100 < 2^(e+1), for k in 7 .. 1599
RECURSIVE Binade100(_, _)
Binade100(k, e) == IF k * 16 < 100 * Pow2(e + 5) THEN e ELSE Binade100(k, e + 1)

\* (float)(k / 100.0) in CTicks: the quotient, formed in double, is rounded
\* to the 24-bit significand (k / 100 is never within a double rounding
\* error of a tie that it does not hit exactly)
FloatDiv100(k) ==
    IF k = 0 THEN 0
    ELSE LET e  == Binade100(k, -4)
             m  == k * Pow2(23 - e)
             q  == m \div 100
             r  == m % 100
             up == 2 * r > 100 \/ (2 * r = 100 /\ q % 2 = 1)
         IN  (IF up THEN q + 1 ELSE q) * Pow2(e + 4)

\* the double 0.01 lies strictly between these two neighbouring CTick values
OnePercentBelow == CTick \div 100

\* fraction < 0.01 and fraction > 0.01 for a float fraction
FractionBelowOnePercent(fraction) == fraction <= OnePercentBelow

FractionAboveOnePercent(fraction) == fraction > OnePercentBelow

\* variant: the percentage is divided by 100 in integer arithmetic first
LedCount_IntegerDivision(brightnessPercent, length) ==
    LET numLEDsFloat == (brightnessPercent \div 100) * length * CTick
        fullLEDs     == numLEDsFloat \div CTick
    IN  [numLEDsFloat |-> numLEDsFloat,
         fullLEDs     |-> constrain(fullLEDs, 0, length),
         fraction     |-> numLEDsFloat - fullLEDs * CTick]

\* variant: the count is rounded to the nearest integer
LedCount_Rounded(brightnessPercent, length) ==
    LET numLEDsFloat == FloatDiv100(brightnessPercent * length)
        fullLEDs     == (numLEDsFloat + CTick \div 2) \div CTick
    IN  [numLEDsFloat |-> numLEDsFloat,
         fullLEDs     |-> constrain(fullLEDs, 0, length),
         fraction     |-> numLEDsFloat - fullLEDs * CTick]

\* variant: the count is taken down from the top of the strip
LedCount_Inverted(brightnessPercent, length) ==
    LET numLEDsFloat == FloatDiv100((100 - brightnessPercent) * length)
        fullLEDs     == numLEDsFloat \div CTick
    IN  [numLEDsFloat |-> numLEDsFloat,
         fullLEDs     |-> constrain(fullLEDs, 0, length),
         fraction     |-> numLEDsFloat - fullLEDs * CTick]

\* DEV_CandleLight::loop(), "Calculate LED count from brightness percentage":
\* numLEDsFloat = brightnessPercent * LED_LENGTH / 100.0,
\* fullLEDs = floor(numLEDsFloat), fraction = numLEDsFloat - fullLEDs (a
\* float subtraction, exact), fullLEDs = constrain(fullLEDs, 0, LED_LENGTH)
LedCount(brightnessPercent, length) ==
    LET numLEDsFloat == FloatDiv100(brightnessPercent * length)
        fullLEDs     == numLEDsFloat \div CTick
    IN  [numLEDsFloat |-> numLEDsFloat,
         fullLEDs     |-> constrain(fullLEDs, 0, length),
         fraction     |-> numLEDsFloat - fullLEDs * CTick]

\* CandleLedArray::transformSetBrightness(): the same computation with
\* float(length * brightness) and a uint8_t fullLEDs
transformSetBrightness(length, brightness) ==
    LET numLEDsFloat == FloatDiv100(length * brightness)
        fullLEDs     == Uint8(numLEDsFloat \div CTick)
    IN  [numLEDsFloat |-> numLEDsFloat,
         fullLEDs     |-> Uint8(constrain(fullLEDs, 0, length)),
         fraction     |-> numLEDsFloat - fullLEDs * CTick]

\* ------------------------------------------------------------------------
\* (int)(smoothedBrightness * fraction): the float product of a brightness
\* (BTicks, in [1, 128)) and a fraction (CTicks, in [0, 1)), rounded to
\* float, then truncated.  The exact product, in units of 2^-45, is formed
\* in base-1024 digits.
\* ------------------------------------------------------------------------
Radix == 1024

Digit(x, i) == (x \div (IF i = 0 THEN 1 ELSE IF i = 1 THEN Radix ELSE Radix * Radix)) % Radix

\* sum of the digit products of weight Radix^j
Column(x, y, j) ==
    LET idx == {a \in 0 .. 2 : j - a \in 0 .. 2}
        term(a) == Digit(x, a) * Digit(y, j - a)
    IN  (IF 0 \in idx THEN term(0) ELSE 0) + (IF 1 \in idx THEN term(1) ELSE 0)
          + (IF 2 \in idx THEN term(2) ELSE 0)

\* the six digits of x * y, least significant first
ProductDigits(x, y) ==
    LET s0 == Column(x, y, 0)
        s1 == Column(x, y, 1) + s0 \div Radix
        s2 == Column(x, y, 2) + s1 \div Radix
        s3 == Column(x, y, 3) + s2 \div Radix
        s4 == Column(x, y, 4) + s3 \div Radix
    IN  <<s0 % Radix, s1 % Radix, s2 % Radix, s3 % Radix, s4 % Radix, s4 \div Radix>>

RECURSIVE Log2(_)
Log2(n) == IF n < 2 THEN 0 ELSE 1 + Log2(n \div 2)

ScaledBrightness(smoothedBrightness, fraction) ==
    LET d     == ProductDigits(smoothedBrightness, fraction)
        top   == d[6] * Radix + d[5]             \* product \div 2^40
        whole == top \div 32                     \* floor of the exact product
        remHi == (top % 32) * Radix + d[4]       \* bits 30 .. 44 of the remainder
        remLo == (d[3] * Radix + d[2]) * Radix + d[1]
        \* half the float spacing at the product, in units of 2^-45
        half  == IF whole = 0 THEN Radix * Radix ELSE Pow2(Log2(whole) + 21)
        \* the product is within half a spacing below whole + 1: the float
        \* multiplication returns whole + 1 exactly
        up    == remHi = 32 * Radix - 1 /\ remLo >= Radix * Radix * Radix - half
    IN  IF up THEN whole + 1 ELSE whole

BtnStates ==
    {"BTN_IDLE", "BTN_DEBOUNCING_PRESS", "BTN_PRESSED", "BTN_LONG_PRESS_ACTIVE",
     "BTN_DEBOUNCING_SHORT_RELEASE", "BTN_DEBOUNCING_LONG_RELEASE"}

VARIABLES
    \* fields of DEV_CandleLight
    buttonState, buttonStateTimer, buttonPressStartTime, buttonLastReading,
    power,
    \* environment: the clock, and whether the last call issued
    \* homeSpan.processSerialCommand("A")
    now, apCmd,
    \* history of the run, used to state properties
    samples,      \* calls of handlePowerButton() so far (free-input runs)
    prevState,    \* buttonState before the last call
    toggled,      \* the last call inverted power
    lowRun,       \* ms the input has been sampled active without a break, -1 if last sample inactive
    highRun,      \* ms the input has been sampled inactive without a break, -1 if last sample active
    heldFor,      \* ms since the press of this excursion was confirmed, -1 if none
    relHeld,      \* heldFor at the latest sample that moved PRESSED to DEBOUNCING_SHORT_RELEASE, -1 if none
    holdMaxGap,   \* longest inactive run sampled since the press was confirmed, -1 if none
    excToggles,   \* power toggles since the machine last left IDLE
    excFires,     \* long-press actions since the machine last left IDLE
    excStable,    \* an active run of at least DEBOUNCE_DELAY ms was sampled since the machine last left IDLE
    clock,        \* true ms since the start of the run (never wraps)
    confirmedAt,  \* clock of the latest press confirmation, -1 if none
    pressedEntries, \* entries into BTN_PRESSED from another state so far
    events,       \* the events emitted so far, in order, each with its clock
    leftAt,       \* clock of the sample that moved the machine out of BTN_IDLE, -1 while it is in BTN_IDLE
    script,       \* the raw input signal of a scripted scenario (NoScript: free input)
    \* HomeKit characteristics beside power
    brightness, hue, saturation,
    \* the LED buffer leds[strip][i], the smoothing state
    \* previousBrightness[strip][i], and the static lastUpdate of loop()
    leds, previousBrightness, lastUpdate,
    \* history of the animation
    ticked,       \* the last step was a loop() call that passed the rate limit
    touched,      \* the <<strip, i>> whose previousBrightness entry the last step changed
    loops,        \* loop() calls so far
    written,      \* the <<strip, i>> the last step wrote in previousBrightness and in leds, in order
    lastTickAt,   \* clock of the latest animation tick, -1 if none
    tickGap,      \* at an animation tick: ms since the tick before it; -1 otherwise
    updates,      \* HomeKit writes so far
    \* the brightness sweep: the percentage and strip length being converted,
    \* the result for it and the result for the percentage before it
    percent, length, count, countBefore,
    \* the smoothing run: its start value and target, the current and the
    \* previous smoothed value, the number of applications so far
    smCase, smoothed, smoothedBefore, iter,
    \* the hue conversion: the base hue and the hue shift drawn, and the
    \* wrapped hue and the 8-bit hue computed for them
    hueCase, hueResult,
    \* the frame sweep: the percentages still to come, the frame computed
    \* for the latest percentage and the one before it
    frameQueue, frameOut, frameOutBefore,
    \* a CandleLedArray object (its fields, as a record) and the LEDs its
    \* latest On() lit, in order: index, smoothed brightness, the int
    \* returned by map() and the uint8_t stored as the value channel
    ledArray, emitted,
    \* the range mapping: the input being mapped, and the outputs for it and
    \* for the input before it
    mapCase, mapResult

btnVars == <<buttonState, buttonStateTimer, buttonPressStartTime, buttonLastReading, power>>

histVars == <<samples, prevState, toggled, lowRun, highRun, heldFor, relHeld,
              holdMaxGap, excToggles, excFires, excStable,
              clock, confirmedAt, pressedEntries, events, leftAt, script>>

flickVars == <<brightness, hue, saturation, leds, previousBrightness, lastUpdate,
               ticked, touched, loops, updates, written, lastTickAt, tickGap>>

calcVars == <<percent, length, count, countBefore, smCase, smoothed, smoothedBefore, iter,
              hueCase, hueResult, frameQueue, frameOut, frameOutBefore,
              ledArray, emitted, mapCase, mapResult>>

vars == <<btnVars, now, apCmd, histVars, flickVars, calcVars>>

StripIdx == 0 .. NUM_STRIPS - 1

LedIdx == 0 .. LED_LENGTH - 1

\* CRGB::Black
Black == [h |-> 0, s |-> 0, v |-> 0]

\* a CHSV colour assigned to a CRGB: value 0 converts to black
CHSV(h, s, v) == IF v = 0 THEN Black ELSE [h |-> h, s |-> s, v |-> v]

AllBlack == [strip \in StripIdx |-> [i \in LedIdx |-> Black]]

\* nothing written
NoWrites == [previousBrightness |-> <<>>, leds |-> <<>>]

\* no result yet
NoCount ==
    [loop  |-> [numLEDsFloat |-> -1, fullLEDs |-> -1, fraction |-> -1],
     array |-> [numLEDsFloat |-> -1, fullLEDs |-> -1, fraction |-> -1]]

NoCase == [start |-> 0, target |-> 0, n |-> 0]

\* no brightness sweep in progress
SweepIdle ==
    /\ percent = -1
    /\ length = LED_LENGTH
    /\ count = NoCount
    /\ countBefore = NoCount

\* no smoothing run in progress
SmoothIdle ==
    /\ smCase = NoCase
    /\ smoothed = 0
    /\ smoothedBefore = 0
    /\ iter = 0

NoHueCase == [baseHue |-> 0, hueOffset |-> 0]

NoHueResult == [flickerHue |-> -1, finalHue |-> -1]

\* no hue conversion in progress
HueIdle ==
    /\ hueCase = NoHueCase
    /\ hueResult = NoHueResult

\* no frame yet
NoFrame ==
    [percent |-> -1, fullLEDs |-> -1, fraction |-> -1,
     leds |-> AllBlack, previousBrightness |-> [strip \in StripIdx |-> [i \in LedIdx |-> 0]],
     written |-> NoWrites]

\* no frame sweep in progress
FrameIdle ==
    /\ frameQueue = <<>>
    /\ frameOut = NoFrame
    /\ frameOutBefore = NoFrame

\* no CandleLedArray constructed
NoArray ==
    [state |-> FALSE, length |-> 0, hue |-> 0, saturation |-> 0, brightness |-> 0,
     fullLEDs |-> 0, fraction |-> 0,
     previousBrightness |-> [strip \in StripIdx |-> [i \in LedIdx |-> 0]],
     leds |-> AllBlack, lastUpdate |-> U32(0)]

ArrayIdle ==
    /\ ledArray = NoArray
    /\ emitted = <<>>

NoMapResult == [value |-> -1, valueBefore |-> -1]

\* no range mapping in progress
MapIdle ==
    /\ mapCase = -1
    /\ mapResult = NoMapResult

CalcIdle == SweepIdle /\ SmoothIdle /\ HueIdle /\ FrameIdle /\ ArrayIdle /\ MapIdle

\* ------------------------------------------------------------------------
\* DEV_CandleLight::DEV_CandleLight()
\* ------------------------------------------------------------------------
Constructor ==
    /\ power = TRUE
    /\ buttonState = "BTN_IDLE"
    /\ buttonStateTimer = U32(0)
    /\ buttonPressStartTime = U32(0)
    /\ buttonLastReading = HIGH
    /\ hue = DEFAULT_HUE
    /\ saturation = DEFAULT_SATURATION
    /\ brightness = DEFAULT_BRIGHTNESS
    /\ leds = AllBlack
    /\ previousBrightness =
         [strip \in StripIdx |-> [i \in LedIdx |->
            ((FLICKER_BRIGHTNESS_MIN + FLICKER_BRIGHTNESS_MAX) * BTick) \div 2]]
    /\ lastUpdate = U32(0)

InitHistory ==
    /\ now \in BootTimes
    /\ apCmd = FALSE
    /\ samples = 0
    /\ prevState = "BTN_IDLE"
    /\ toggled = FALSE
    /\ lowRun = -1
    /\ highRun = 0
    /\ heldFor = -1
    /\ relHeld = -1
    /\ holdMaxGap = -1
    /\ excToggles = 0
    /\ excFires = 0
    /\ excStable = FALSE
    /\ clock = 0
    /\ confirmedAt = -1
    /\ pressedEntries = 0
    /\ events = <<>>
    /\ leftAt = -1
    /\ ticked = FALSE
    /\ touched = {}
    /\ loops = 0
    /\ updates = 0
    /\ written = NoWrites
    /\ lastTickAt = -1
    /\ tickGap = -1

\* free input: every call may read either level
NoScript == [edges |-> <<>>, releaseAfterConfirm |-> -1]

Init ==
    /\ Constructor
    /\ InitHistory
    /\ script = NoScript
    /\ CalcIdle

\* ------------------------------------------------------------------------
\* DEV_CandleLight::handlePowerButton(), one definition per case of the
\* switch.  currentReading is digitalRead(POWER_BUTTON_PIN), t is millis().
\* ------------------------------------------------------------------------
BtnIdle(currentReading, t) ==
    /\ buttonState = "BTN_IDLE"
    /\ IF buttonLastReading = HIGH /\ currentReading = LOW
         THEN /\ buttonState' = "BTN_DEBOUNCING_PRESS"
              /\ buttonStateTimer' = t
         ELSE UNCHANGED <<buttonState, buttonStateTimer>>
    /\ UNCHANGED <<buttonPressStartTime, power>>
    /\ apCmd' = FALSE

\* variant: the debounce test reads the press timer instead of the state timer
BtnDebouncingPress_WrongTimer(currentReading, t) ==
    /\ buttonState = "BTN_DEBOUNCING_PRESS"
    /\ IF currentReading = HIGH
         THEN /\ buttonState' = "BTN_IDLE"
              /\ UNCHANGED buttonPressStartTime
         ELSE IF U32Ge(U32Sub(t, buttonPressStartTime), DEBOUNCE_DELAY)
         THEN /\ buttonState' = "BTN_PRESSED"
              /\ buttonPressStartTime' = t
         ELSE UNCHANGED <<buttonState, buttonPressStartTime>>
    /\ UNCHANGED <<buttonStateTimer, power>>
    /\ apCmd' = FALSE

\* variant: a reading that bounced back to HIGH does not abandon the debounce
BtnDebouncingPress_IgnoresBounce(currentReading, t) ==
    /\ buttonState = "BTN_DEBOUNCING_PRESS"
    /\ IF U32Ge(U32Sub(t, buttonStateTimer), DEBOUNCE_DELAY)
         THEN /\ buttonState' = "BTN_PRESSED"
              /\ buttonPressStartTime' = t
         ELSE UNCHANGED <<buttonState, buttonPressStartTime>>
    /\ UNCHANGED <<buttonStateTimer, power>>
    /\ apCmd' = FALSE

\* variant: the confirmation time is not recorded
BtnDebouncingPress_NoStamp(currentReading, t) ==
    /\ buttonState = "BTN_DEBOUNCING_PRESS"
    /\ IF currentReading = HIGH
         THEN buttonState' = "BTN_IDLE"
         ELSE IF U32Ge(U32Sub(t, buttonStateTimer), DEBOUNCE_DELAY)
         THEN buttonState' = "BTN_PRESSED"
         ELSE UNCHANGED buttonState
    /\ UNCHANGED <<buttonStateTimer, buttonPressStartTime, power>>
    /\ apCmd' = FALSE

BtnDebouncingPress(currentReading, t) ==
    /\ buttonState = "BTN_DEBOUNCING_PRESS"
    /\ IF currentReading = HIGH
         THEN /\ buttonState' = "BTN_IDLE"
              /\ UNCHANGED buttonPressStartTime
         ELSE IF U32Ge(U32Sub(t, buttonStateTimer), DEBOUNCE_DELAY)
         THEN /\ buttonState' = "BTN_PRESSED"
              /\ buttonPressStartTime' = t
         ELSE UNCHANGED <<buttonState, buttonPressStartTime>>
    /\ UNCHANGED <<buttonStateTimer, power>>
    /\ apCmd' = FALSE

\* variant: the long-press branch does not leave BTN_PRESSED
BtnPressed_NoLatch(currentReading, t) ==
    /\ buttonState = "BTN_PRESSED"
    /\ IF currentReading = HIGH
         THEN /\ buttonState' = "BTN_DEBOUNCING_SHORT_RELEASE"
              /\ buttonStateTimer' = t
              /\ apCmd' = FALSE
         ELSE IF U32Ge(U32Sub(t, buttonPressStartTime), LONG_PRESS_DURATION)
         THEN /\ apCmd' = TRUE
              /\ UNCHANGED <<buttonState, buttonStateTimer>>
         ELSE /\ apCmd' = FALSE
              /\ UNCHANGED <<buttonState, buttonStateTimer>>
    /\ UNCHANGED <<buttonPressStartTime, power>>

\* variant: the long-press test measures from buttonStateTimer
BtnPressed_WrongTimer(currentReading, t) ==
    /\ buttonState = "BTN_PRESSED"
    /\ IF currentReading = HIGH
         THEN /\ buttonState' = "BTN_DEBOUNCING_SHORT_RELEASE"
              /\ buttonStateTimer' = t
              /\ apCmd' = FALSE
         ELSE IF U32Ge(U32Sub(t, buttonStateTimer), LONG_PRESS_DURATION)
         THEN /\ buttonState' = "BTN_LONG_PRESS_ACTIVE"
              /\ apCmd' = TRUE
              /\ UNCHANGED buttonStateTimer
         ELSE /\ apCmd' = FALSE
              /\ UNCHANGED <<buttonState, buttonStateTimer>>
    /\ UNCHANGED <<buttonPressStartTime, power>>

\* variant: the long-press branch also inverts power
BtnPressed_AlsoToggles(currentReading, t) ==
    /\ buttonState = "BTN_PRESSED"
    /\ IF currentReading = HIGH
         THEN /\ buttonState' = "BTN_DEBOUNCING_SHORT_RELEASE"
              /\ buttonStateTimer' = t
              /\ apCmd' = FALSE
              /\ UNCHANGED power
         ELSE IF U32Ge(U32Sub(t, buttonPressStartTime), LONG_PRESS_DURATION)
         THEN /\ buttonState' = "BTN_LONG_PRESS_ACTIVE"
              /\ apCmd' = TRUE
              /\ power' = ~power
              /\ UNCHANGED buttonStateTimer
         ELSE /\ apCmd' = FALSE
              /\ UNCHANGED <<buttonState, buttonStateTimer, power>>
    /\ UNCHANGED buttonPressStartTime

BtnPressed(currentReading, t) ==
    /\ buttonState = "BTN_PRESSED"
    /\ IF currentReading = HIGH
         THEN /\ buttonState' = "BTN_DEBOUNCING_SHORT_RELEASE"
              /\ buttonStateTimer' = t
              /\ apCmd' = FALSE
         ELSE IF U32Ge(U32Sub(t, buttonPressStartTime), LONG_PRESS_DURATION)
         THEN /\ buttonState' = "BTN_LONG_PRESS_ACTIVE"
              /\ apCmd' = TRUE
              /\ UNCHANGED buttonStateTimer
         ELSE /\ apCmd' = FALSE
              /\ UNCHANGED <<buttonState, buttonStateTimer>>
    /\ UNCHANGED <<buttonPressStartTime, power>>

\* variant: the long-press action repeats while the button stays down
BtnLongPressActive_Repeats(currentReading, t) ==
    /\ buttonState = "BTN_LONG_PRESS_ACTIVE"
    /\ IF currentReading = HIGH
         THEN /\ buttonState' = "BTN_DEBOUNCING_LONG_RELEASE"
              /\ buttonStateTimer' = t
         ELSE UNCHANGED <<buttonState, buttonStateTimer>>
    /\ UNCHANGED <<buttonPressStartTime, power>>
    /\ apCmd' = (currentReading = LOW)

BtnLongPressActive(currentReading, t) ==
    /\ buttonState = "BTN_LONG_PRESS_ACTIVE"
    /\ IF currentReading = HIGH
         THEN /\ buttonState' = "BTN_DEBOUNCING_LONG_RELEASE"
              /\ buttonStateTimer' = t
         ELSE UNCHANGED <<buttonState, buttonStateTimer>>
    /\ UNCHANGED <<buttonPressStartTime, power>>
    /\ apCmd' = FALSE

\* variant: the release debounce test reads the press timer instead of the state timer
BtnDebouncingShortRelease_WrongTimer(currentReading, t) ==
    /\ buttonState = "BTN_DEBOUNCING_SHORT_RELEASE"
    /\ IF currentReading = LOW
         THEN /\ buttonState' = "BTN_PRESSED"
              /\ UNCHANGED power
         ELSE IF U32Ge(U32Sub(t, buttonPressStartTime), DEBOUNCE_DELAY)
         THEN /\ power' = ~power
              /\ buttonState' = "BTN_IDLE"
         ELSE UNCHANGED <<buttonState, power>>
    /\ UNCHANGED <<buttonStateTimer, buttonPressStartTime>>
    /\ apCmd' = FALSE

\* variant: a confirmed short release switches power off instead of inverting it
BtnDebouncingShortRelease_TurnsOff(currentReading, t) ==
    /\ buttonState = "BTN_DEBOUNCING_SHORT_RELEASE"
    /\ IF currentReading = LOW
         THEN /\ buttonState' = "BTN_PRESSED"
              /\ UNCHANGED power
         ELSE IF U32Ge(U32Sub(t, buttonStateTimer), DEBOUNCE_DELAY)
         THEN /\ power' = FALSE
              /\ buttonState' = "BTN_IDLE"
         ELSE UNCHANGED <<buttonState, power>>
    /\ UNCHANGED <<buttonStateTimer, buttonPressStartTime>>
    /\ apCmd' = FALSE

\* variant: a bounce during the short release restarts the hold timer
BtnDebouncingShortRelease_RestartsHold(currentReading, t) ==
    /\ buttonState = "BTN_DEBOUNCING_SHORT_RELEASE"
    /\ IF currentReading = LOW
         THEN /\ buttonState' = "BTN_PRESSED"
              /\ buttonPressStartTime' = t
              /\ UNCHANGED power
         ELSE IF U32Ge(U32Sub(t, buttonStateTimer), DEBOUNCE_DELAY)
         THEN /\ power' = ~power
              /\ buttonState' = "BTN_IDLE"
              /\ UNCHANGED buttonPressStartTime
         ELSE UNCHANGED <<buttonState, power, buttonPressStartTime>>
    /\ UNCHANGED buttonStateTimer
    /\ apCmd' = FALSE

\* variant: the release debounce tests the timer before the reading
BtnDebouncingShortRelease_TimerFirst(currentReading, t) ==
    /\ buttonState = "BTN_DEBOUNCING_SHORT_RELEASE"
    /\ IF U32Ge(U32Sub(t, buttonStateTimer), DEBOUNCE_DELAY)
         THEN /\ power' = ~power
              /\ buttonState' = "BTN_IDLE"
         ELSE IF currentReading = LOW
         THEN /\ buttonState' = "BTN_PRESSED"
              /\ UNCHANGED power
         ELSE UNCHANGED <<buttonState, power>>
    /\ UNCHANGED <<buttonStateTimer, buttonPressStartTime>>
    /\ apCmd' = FALSE

BtnDebouncingShortRelease(currentReading, t) ==
    /\ buttonState = "BTN_DEBOUNCING_SHORT_RELEASE"
    /\ IF currentReading = LOW
         THEN /\ buttonState' = "BTN_PRESSED"
              /\ UNCHANGED power
         ELSE IF U32Ge(U32Sub(t, buttonStateTimer), DEBOUNCE_DELAY)
         THEN /\ power' = ~power
              /\ buttonState' = "BTN_IDLE"
         ELSE UNCHANGED <<buttonState, power>>
    /\ UNCHANGED <<buttonStateTimer, buttonPressStartTime>>
    /\ apCmd' = FALSE

\* variant: the long release runs the short-release action
BtnDebouncingLongRelease_Toggles(currentReading, t) ==
    /\ buttonState = "BTN_DEBOUNCING_LONG_RELEASE"
    /\ IF currentReading = LOW
         THEN /\ buttonState' = "BTN_LONG_PRESS_ACTIVE"
              /\ UNCHANGED power
         ELSE IF U32Ge(U32Sub(t, buttonStateTimer), DEBOUNCE_DELAY)
         THEN /\ power' = ~power
              /\ buttonState' = "BTN_IDLE"
         ELSE UNCHANGED <<buttonState, power>>
    /\ UNCHANGED <<buttonStateTimer, buttonPressStartTime>>
    /\ apCmd' = FALSE

\* variant: a bounce during the long release returns to BTN_PRESSED
BtnDebouncingLongRelease_ToPressed(currentReading, t) ==
    /\ buttonState = "BTN_DEBOUNCING_LONG_RELEASE"
    /\ IF currentReading = LOW
         THEN buttonState' = "BTN_PRESSED"
         ELSE IF U32Ge(U32Sub(t, buttonStateTimer), DEBOUNCE_DELAY)
         THEN buttonState' = "BTN_IDLE"
         ELSE UNCHANGED buttonState
    /\ UNCHANGED <<buttonStateTimer, buttonPressStartTime, power>>
    /\ apCmd' = FALSE

\* variant: the long release waits for the long-press duration
BtnDebouncingLongRelease_LongWindow(currentReading, t) ==
    /\ buttonState = "BTN_DEBOUNCING_LONG_RELEASE"
    /\ IF currentReading = LOW
         THEN buttonState' = "BTN_LONG_PRESS_ACTIVE"
         ELSE IF U32Ge(U32Sub(t, buttonStateTimer), LONG_PRESS_DURATION)
         THEN buttonState' = "BTN_IDLE"
         ELSE UNCHANGED buttonState
    /\ UNCHANGED <<buttonStateTimer, buttonPressStartTime, power>>
    /\ apCmd' = FALSE

BtnDebouncingLongRelease(currentReading, t) ==
    /\ buttonState = "BTN_DEBOUNCING_LONG_RELEASE"
    /\ IF currentReading = LOW
         THEN buttonState' = "BTN_LONG_PRESS_ACTIVE"
         ELSE IF U32Ge(U32Sub(t, buttonStateTimer), DEBOUNCE_DELAY)
         THEN buttonState' = "BTN_IDLE"
         ELSE UNCHANGED buttonState
    /\ UNCHANGED <<buttonStateTimer, buttonPressStartTime, power>>
    /\ apCmd' = FALSE

handlePowerButton(currentReading, t) ==
    /\ \/ BtnIdle(currentReading, t)
       \/ BtnDebouncingPress(currentReading, t)
       \/ BtnPressed(currentReading, t)
       \/ BtnLongPressActive(currentReading, t)
       \/ BtnDebouncingShortRelease(currentReading, t)
       \/ BtnDebouncingLongRelease(currentReading, t)
    /\ buttonLastReading' = currentReading

\* ------------------------------------------------------------------------
\* History of the run: what the call just made did, measured in true
\* (unwrapped) milliseconds.  dt is the time since the previous call.
\* ------------------------------------------------------------------------
Record(currentReading, dt) ==
    LET leaving    == buttonState = "BTN_IDLE" /\ buttonState' # "BTN_IDLE"
        confirming == buttonState = "BTN_DEBOUNCING_PRESS" /\ buttonState' = "BTN_PRESSED"
        releasing  == buttonState = "BTN_PRESSED" /\ buttonState' = "BTN_DEBOUNCING_SHORT_RELEASE"
        lowRunN    == IF currentReading = LOW
                        THEN (IF lowRun < 0 THEN 0 ELSE lowRun + dt) ELSE -1
        highRunN   == IF currentReading = HIGH
                        THEN (IF highRun < 0 THEN 0 ELSE highRun + dt) ELSE -1
        heldForN   == IF leaving THEN -1
                      ELSE IF confirming THEN 0
                      ELSE IF heldFor < 0 THEN -1 ELSE heldFor + dt
    IN  /\ prevState' = buttonState
        /\ toggled' = (power' # power)
        /\ lowRun' = lowRunN
        /\ highRun' = highRunN
        /\ heldFor' = heldForN
        /\ relHeld' = IF leaving \/ confirming THEN -1
                      ELSE IF releasing THEN heldForN ELSE relHeld
        /\ holdMaxGap' = IF leaving \/ confirming \/ heldForN < 0 THEN -1
                         ELSE IF highRunN > holdMaxGap THEN highRunN ELSE holdMaxGap
        /\ excToggles' = (IF leaving THEN 0 ELSE excToggles) + (IF power' # power THEN 1 ELSE 0)
        /\ excFires' = (IF leaving THEN 0 ELSE excFires) + (IF apCmd' THEN 1 ELSE 0)
        /\ excStable' = ((~leaving /\ excStable) \/ lowRunN >= DEBOUNCE_DELAY)
        /\ clock' = clock + dt
        /\ confirmedAt' = IF confirming THEN clock + dt ELSE confirmedAt
        /\ pressedEntries' = pressedEntries +
              (IF buttonState # "BTN_PRESSED" /\ buttonState' = "BTN_PRESSED" THEN 1 ELSE 0)
        /\ events' = events \o (IF apCmd' THEN << <<"LongPress", clock + dt>> >> ELSE <<>>)
                             \o (IF power' # power THEN << <<"ShortPress", clock + dt>> >> ELSE <<>>)
        /\ leftAt' = IF buttonState' = "BTN_IDLE" THEN -1
                      ELSE IF leaving THEN clock + dt ELSE leftAt
        /\ script' = script

\* One iteration of the polling loop as far as the button is concerned.
Sample(currentReading, dt) ==
    /\ samples < MaxSamples
    /\ now' = U32Add(now, dt)
    /\ handlePowerButton(currentReading, now')
    /\ Record(currentReading, dt)
    /\ samples' = samples + 1
    /\ UNCHANGED <<flickVars, calcVars>>

Next == \E currentReading \in {HIGH, LOW}, dt \in Steps : Sample(currentReading, dt)

Spec == Init /\ [][Next]_vars

\* ------------------------------------------------------------------------
\* Scripted scenarios: the raw input is a function of time.  edges are the
\* clocks at which the signal changes level (inactive before the first);
\* releaseAfterConfirm >= 0 makes the signal go inactive for good that many
\* ms after the press was confirmed.
\* ------------------------------------------------------------------------
\* inactive -> active, held HoldMs from the transition, then inactive
ScriptHoldFromEdge ==
    [edges |-> <<PressEdge, PressEdge + HoldMs>>, releaseAfterConfirm |-> -1]

\* inactive -> active, held until HoldMs after the press was confirmed
ScriptHoldFromConfirm ==
    [edges |-> <<PressEdge>>, releaseAfterConfirm |-> HoldMs]

\* active, inactive, active within the debounce window, held 300 ms, released
PressBounce(off, on) ==
    [edges |-> <<PressEdge, PressEdge + off, PressEdge + on, PressEdge + on + 300>>,
     releaseAfterConfirm |-> -1]

PressBounceScripts == {PressBounce(off, on) : off \in BounceOffs, on \in BounceOns}

\* a short press whose release bounces
ScriptShortReleaseBounce ==
    [edges |-> <<PressEdge, PressEdge + 300, PressEdge + 320, PressEdge + 500>>,
     releaseAfterConfirm |-> -1]

\* a long press whose release bounces
ScriptLongReleaseBounce ==
    [edges |-> <<PressEdge, PressEdge + 3200, PressEdge + 3220, PressEdge + 3300>>,
     releaseAfterConfirm |-> -1]

Scripts ==
    {ScriptHoldFromEdge, ScriptHoldFromConfirm,
     ScriptShortReleaseBounce, ScriptLongReleaseBounce} \cup PressBounceScripts

\* level of the pin at clock c (LOW is active)
Signal(c) ==
    LET passed == Cardinality({i \in DOMAIN script.edges : script.edges[i] <= c})
        cut    == script.releaseAfterConfirm >= 0 /\ confirmedAt >= 0
                    /\ c >= confirmedAt + script.releaseAfterConfirm
    IN  IF passed % 2 = 1 /\ ~cut THEN LOW ELSE HIGH

ScenarioSample(dt) ==
    /\ clock < ScenarioEnd
    /\ now' = U32Add(now, dt)
    /\ handlePowerButton(Signal(clock + dt), now')
    /\ Record(Signal(clock + dt), dt)
    /\ UNCHANGED <<samples, flickVars, calcVars>>

ScenarioNext == \E dt \in PollSteps : ScenarioSample(dt)

ScenarioInit ==
    /\ Constructor
    /\ InitHistory
    /\ script \in Scripts
    /\ CalcIdle

SpecScenario == ScenarioInit /\ [][ScenarioNext]_vars

\* ------------------------------------------------------------------------
\* The flicker animation.
\*
\* random(min, max) returns a value in min .. max - 1.  One animation tick
\* draws a brightness variation and a hue shift for every lit LED; rnd holds
\* the two draws made for LED i at rnd.variation[i] and rnd.hue[i].
\* ------------------------------------------------------------------------
\* the draws of one tick: all at the bottom of their ranges, or alternating
\* between the bottom and the top along the strip
RandomDraws ==
    {[variation |-> [i \in LedIdx |-> FLICKER_VARIATION_MIN],
      hue       |-> [i \in LedIdx |-> FLICKER_HUE_MIN]],
     [variation |-> [i \in LedIdx |-> IF i % 2 = 0 THEN FLICKER_VARIATION_MIN
                                                   ELSE FLICKER_VARIATION_MAX - 1],
      hue       |-> [i \in LedIdx |-> IF i % 2 = 0 THEN FLICKER_HUE_MAX - 1
                                                   ELSE FLICKER_HUE_MIN]]}

\* float targetBrightness = 100.0 + random(...), then constrain
TargetBrightness(variation) ==
    constrain(BFloat(100 + variation),
              BFloat(FLICKER_BRIGHTNESS_MIN), BFloat(FLICKER_BRIGHTNESS_MAX))

\* variant: the remainder of C alone, without the shift into 0 .. 359
WrapHue_Remainder(flickerHue) ==
    TruncMod(flickerHue, 360)

\* ((flickerHue % 360) + 360) % 360 with the remainder of C
WrapHue(flickerHue) ==
    TruncMod(TruncMod(flickerHue, 360) + 360, 360)

\* map(flickerHue, 0, 360, 0, 255) of the wrapped hue, before the
\* conversion to uint8_t
finalHue(baseHue, hueOffset) == map(WrapHue(baseHue + hueOffset), 0, 360, 0, 255)

\* map(baseSat, 0, 100, 0, 255), before the conversion to uint8_t
finalSaturation(baseSat) == map(baseSat, 0, 100, 0, 255)

\* map((int)smoothedBrightness, MIN, MAX, 0, 255) of a full LED, before the
\* conversion to uint8_t
finalBrightness(smoothedBrightness) ==
    map(ToInt(smoothedBrightness), FLICKER_BRIGHTNESS_MIN, FLICKER_BRIGHTNESS_MAX, 0, 255)

\* variant: the scaled brightness is mapped without constrain
fractionalBrightness_NoConstrain(smoothedBrightness, fraction) ==
    map(ScaledBrightness(smoothedBrightness, fraction),
        FLICKER_BRIGHTNESS_MIN, FLICKER_BRIGHTNESS_MAX, 0, 255)

\* variant: the smoothed brightness is not scaled by the fraction
fractionalBrightness_Unscaled(smoothedBrightness, fraction) ==
    map(constrain(ToInt(smoothedBrightness),
                  FLICKER_BRIGHTNESS_MIN, FLICKER_BRIGHTNESS_MAX),
        FLICKER_BRIGHTNESS_MIN, FLICKER_BRIGHTNESS_MAX, 0, 255)

\* the value of the fractional LED, before the conversion to uint8_t:
\* scaledBrightness = (int)(smoothedBrightness * fraction), then
\* map(constrain(scaledBrightness, MIN, MAX), MIN, MAX, 0, 255)
fractionalBrightness(smoothedBrightness, fraction) ==
    map(constrain(ScaledBrightness(smoothedBrightness, fraction),
                  FLICKER_BRIGHTNESS_MIN, FLICKER_BRIGHTNESS_MAX),
        FLICKER_BRIGHTNESS_MIN, FLICKER_BRIGHTNESS_MAX, 0, 255)

\* the assignments previousBrightness[0][i] = previousBrightness[1][i] = x:
\* an index outside the array leaves the model's array alone, the write is
\* recorded all the same
StorePrevious(st, i, x) ==
    LET logged == [st EXCEPT !.written.previousBrightness = @ \o <<<<0, i>>, <<1, i>>>>]
    IN  IF i \in LedIdx
          THEN [logged EXCEPT !.previousBrightness[0][i] = x,
                              !.previousBrightness[1][i] = x]
          ELSE logged

\* the assignment leds[strip][i] = color
StoreLed(st, strip, i, color) ==
    LET logged == [st EXCEPT !.written.leds = Append(@, <<strip, i>>)]
    IN  IF i \in LedIdx
          THEN [logged EXCEPT !.leds[strip][i] = color]
          ELSE logged

\* variant: the colour is written to the first strip only
FullLed_FirstStripOnly(st, i, baseHue, baseSat, rnd) ==
    LET smoothedBrightness ==
            calculateSmoothedBrightness(TargetBrightness(rnd.variation[i]),
                                        st.previousBrightness[0][i])
        color == CHSV(Uint8(finalHue(baseHue, rnd.hue[i])),
                      Uint8(finalSaturation(baseSat)),
                      Uint8(finalBrightness(smoothedBrightness)))
    IN  StoreLed(StorePrevious(st, i, smoothedBrightness), 0, i, color)

\* variant: the results are stored one index further along the arrays
FullLed_NextIndex(st, i, baseHue, baseSat, rnd) ==
    LET smoothedBrightness ==
            calculateSmoothedBrightness(TargetBrightness(rnd.variation[i]),
                                        st.previousBrightness[0][i])
        color == CHSV(Uint8(finalHue(baseHue, rnd.hue[i])),
                      Uint8(finalSaturation(baseSat)),
                      Uint8(finalBrightness(smoothedBrightness)))
    IN  StoreLed(StoreLed(StorePrevious(st, i + 1, smoothedBrightness), 0, i + 1, color),
                 1, i + 1, color)

\* applyFlicker(), body of the loop over the fully lit LEDs, for index i
FullLed(st, i, baseHue, baseSat, rnd) ==
    LET smoothedBrightness ==
            calculateSmoothedBrightness(TargetBrightness(rnd.variation[i]),
                                        st.previousBrightness[0][i])
        color == CHSV(Uint8(finalHue(baseHue, rnd.hue[i])),
                      Uint8(finalSaturation(baseSat)),
                      Uint8(finalBrightness(smoothedBrightness)))
    IN  StoreLed(StoreLed(StorePrevious(st, i, smoothedBrightness), 0, i, color),
                 1, i, color)

\* applyFlicker(), the fractional LED at index fullLEDs
FractionalLed(st, fullLEDs, fraction, baseHue, baseSat, rnd) ==
    LET smoothedBrightness ==
            calculateSmoothedBrightness(TargetBrightness(rnd.variation[fullLEDs]),
                                        st.previousBrightness[0][fullLEDs])
        color == CHSV(Uint8(finalHue(baseHue, rnd.hue[fullLEDs])),
                      Uint8(finalSaturation(baseSat)),
                      Uint8(fractionalBrightness(smoothedBrightness, fraction)))
    IN  StoreLed(StoreLed(StorePrevious(st, fullLEDs, smoothedBrightness),
                          0, fullLEDs, color),
                 1, fullLEDs, color)

\* for (int i = 0; i < fullLEDs; i++), from index i on
RECURSIVE FullLeds(_, _, _, _, _, _)
FullLeds(st, i, fullLEDs, baseHue, baseSat, rnd) ==
    IF i >= fullLEDs THEN st
    ELSE FullLeds(FullLed(st, i, baseHue, baseSat, rnd), i + 1, fullLEDs, baseHue, baseSat, rnd)

\* variant: every LED of the strip is smoothed, whatever the count
applyFlicker_SmoothsAll(st, fullLEDs, fraction, baseHue, baseSat, rnd) ==
    LET afterFull == FullLeds(st, 0, fullLEDs, baseHue, baseSat, rnd)
        all       == FullLeds(st, 0, LED_LENGTH, baseHue, baseSat, rnd)
    IN  [previousBrightness |-> all.previousBrightness, leds |-> afterFull.leds,
         written |-> all.written]

\* DEV_CandleLight::applyFlicker(); st holds previousBrightness and the
\* LED buffer on entry, and the writes made so far in this call of loop()
applyFlicker(st, fullLEDs, fraction, baseHue, baseSat, rnd) ==
    LET afterFull == FullLeds(st, 0, fullLEDs, baseHue, baseSat, rnd)
    IN  IF FractionAboveOnePercent(fraction) /\ fullLEDs < LED_LENGTH
          THEN FractionalLed(afterFull, fullLEDs, fraction, baseHue, baseSat, rnd)
          ELSE afterFull

\* fill_solid(leds[strip], LED_LENGTH, CRGB::Black) for both strips
FillBlack ==
    [i \in 1 .. NUM_STRIPS * LED_LENGTH |-> <<(i - 1) \div LED_LENGTH, (i - 1) % LED_LENGTH>>]

\* variant: a tick with power off returns without clearing the strips
Frame_OffKeepsLeds(pw, brightnessPercent, rnd) ==
    LET c       == LedCount(brightnessPercent, LED_LENGTH)
        cleared == [previousBrightness |-> previousBrightness, leds |-> AllBlack,
                    written |-> [previousBrightness |-> <<>>, leds |-> FillBlack]]
    IN  IF ~pw THEN [previousBrightness |-> previousBrightness, leds |-> leds,
                     written |-> NoWrites]
        ELSE IF c.fullLEDs = 0 /\ FractionBelowOnePercent(c.fraction) THEN cleared
        ELSE applyFlicker(cleared, c.fullLEDs, c.fraction, hue, saturation, rnd)

\* DEV_CandleLight::loop() past the rate limit: the frame of one animation
\* tick.  pw is power->getVal(), brightnessPercent is brightness->getVal().
Frame(pw, brightnessPercent, rnd) ==
    LET c       == LedCount(brightnessPercent, LED_LENGTH)
        cleared == [previousBrightness |-> previousBrightness, leds |-> AllBlack,
                    written |-> [previousBrightness |-> <<>>, leds |-> FillBlack]]
    IN  IF ~pw THEN cleared
        ELSE IF c.fullLEDs = 0 /\ FractionBelowOnePercent(c.fraction) THEN cleared
        ELSE applyFlicker(cleared, c.fullLEDs, c.fraction, hue, saturation, rnd)

\* milliseconds between two consecutive calls of loop()
LoopSteps == {30, 60}

\* variant: the rate check compares with half the interval
RateLimited_HalfInterval(t) ==
    ~U32Ge(U32Sub(t, lastUpdate), UPDATE_INTERVAL \div 2)

\* millis() - lastUpdate < UPDATE_INTERVAL, at millis() = t
RateLimited(t) ==
    ~U32Ge(U32Sub(t, lastUpdate), UPDATE_INTERVAL)

\* the animation part of loop(): the rate check, then the frame
Animate(t, at, rnd) ==
    IF RateLimited(t)
      THEN /\ ticked' = FALSE
           /\ written' = NoWrites
           /\ tickGap' = -1
           /\ UNCHANGED <<lastUpdate, leds, previousBrightness, lastTickAt>>
      ELSE /\ ticked' = TRUE
           /\ lastUpdate' = t
           /\ lastTickAt' = at
           /\ tickGap' = IF lastTickAt < 0 THEN -1 ELSE at - lastTickAt
           /\ LET frame == Frame(power', brightness, rnd)
              IN  /\ leds' = frame.leds
                  /\ previousBrightness' = frame.previousBrightness
                  /\ written' = frame.written

\* variant: the button is read after the rate check, and the frame is
\* computed from the power flag as it was on entry
loop_ButtonAfterFrame(currentReading, dt, rnd) ==
    /\ loops < MaxLoops
    /\ now' = U32Add(now, dt)
    /\ loops' = loops + 1
    /\ IF RateLimited(now')
         THEN /\ ticked' = FALSE
              /\ written' = NoWrites
              /\ tickGap' = -1
              /\ UNCHANGED <<lastUpdate, leds, previousBrightness, lastTickAt>>
              /\ UNCHANGED <<btnVars, apCmd>>
         ELSE /\ ticked' = TRUE
              /\ lastUpdate' = now'
              /\ lastTickAt' = clock + dt
              /\ tickGap' = IF lastTickAt < 0 THEN -1 ELSE clock + dt - lastTickAt
              /\ LET frame == Frame(power, brightness, rnd)
                 IN  /\ leds' = frame.leds
                     /\ previousBrightness' = frame.previousBrightness
                     /\ written' = frame.written
              /\ handlePowerButton(currentReading, now')
    /\ Record(currentReading, dt)
    /\ touched' = {e \in StripIdx \X LedIdx :
                      previousBrightness'[e[1]][e[2]] # previousBrightness[e[1]][e[2]]}
    /\ UNCHANGED <<samples, brightness, hue, saturation, updates, calcVars>>

\* DEV_CandleLight::loop(): the button, the rate limit, the frame
loop(currentReading, dt, rnd) ==
    /\ loops < MaxLoops
    /\ now' = U32Add(now, dt)
    /\ handlePowerButton(currentReading, now')
    /\ Record(currentReading, dt)
    /\ loops' = loops + 1
    /\ Animate(now', clock + dt, rnd)
    /\ touched' = {e \in StripIdx \X LedIdx :
                      previousBrightness'[e[1]][e[2]] # previousBrightness[e[1]][e[2]]}
    /\ UNCHANGED <<samples, brightness, hue, saturation, updates, calcVars>>

\* brightness percentages a HomeKit controller writes: nothing lit, and two
\* full LEDs with a fractional one (every percentage is covered by the
\* frame sweep)
Brightnesses == {0, 37}

\* writes of a HomeKit controller: power off, or a brightness
HomeKitWrites == {<<"On", FALSE>>} \cup {<<"Brightness", p>> : p \in Brightnesses}

\* DEV_CandleLight::update(): HomeSpan hands over a write and, since the
\* callback returns true, commits the new value to the characteristic
update(w) ==
    /\ updates < MaxUpdates
    /\ updates' = updates + 1
    /\ power' = IF w[1] = "On" THEN w[2] ELSE power
    /\ brightness' = IF w[1] = "Brightness" THEN w[2] ELSE brightness
    /\ hue' = IF w[1] = "Hue" THEN w[2] ELSE hue
    /\ saturation' = IF w[1] = "Saturation" THEN w[2] ELSE saturation
    /\ ticked' = FALSE
    /\ touched' = {}
    /\ written' = NoWrites
    /\ tickGap' = -1
    /\ UNCHANGED <<buttonState, buttonStateTimer, buttonPressStartTime, buttonLastReading,
                   now, apCmd, histVars, leds, previousBrightness, lastUpdate, loops,
                   lastTickAt, calcVars>>

LoopNext ==
    \/ \E currentReading \in {HIGH, LOW}, dt \in LoopSteps, rnd \in RandomDraws :
          loop(currentReading, dt, rnd)
    \/ \E w \in HomeKitWrites : update(w)

SpecLoop == Init /\ [][LoopNext]_vars

\* milliseconds between two calls of loop() when the main loop is irregular:
\* a quick return, one debounce window, a stall of nearly a long press
WrapSteps == {5, 50, 2950}

\* loop() called at irregular intervals, started at either boot time, so
\* that timestamps are taken on both sides of the wrap of millis()
WrapNext ==
    \E currentReading \in {HIGH, LOW}, dt \in WrapSteps, rnd \in RandomDraws :
       loop(currentReading, dt, rnd)

SpecWrap == Init /\ [][WrapNext]_vars

\* ------------------------------------------------------------------------
\* The brightness sweep: the LED count of every percentage 0 .. 100 in
\* turn, for a strip of the given length, as DEV_CandleLight::loop() and as
\* CandleLedArray::transformSetBrightness() compute it.
\* ------------------------------------------------------------------------
StripLengths == {7, LED_LENGTH, 15}

BrightnessSweep ==
    /\ percent < 100
    /\ percent' = percent + 1
    /\ countBefore' = count
    /\ count' = [loop  |-> LedCount(percent', length),
                 array |-> transformSetBrightness(length, percent')]
    /\ UNCHANGED <<btnVars, now, apCmd, histVars, flickVars, length,
                   smCase, smoothed, smoothedBefore, iter, hueCase, hueResult,
                   frameQueue, frameOut, frameOutBefore,
                   ledArray, emitted, mapCase, mapResult>>

SweepInit ==
    /\ Constructor
    /\ InitHistory
    /\ script = NoScript
    /\ percent = -1
    /\ length \in StripLengths
    /\ count = NoCount
    /\ countBefore = NoCount
    /\ SmoothIdle
    /\ HueIdle
    /\ FrameIdle
    /\ ArrayIdle
    /\ MapIdle

SweepNext == BrightnessSweep

SpecSweep == SweepInit /\ [][SweepNext]_vars

\* ------------------------------------------------------------------------
\* The smoothing run: calculateSmoothedBrightness() applied n times to its
\* own result with a constant target.
\* ------------------------------------------------------------------------
\* iterations of test_smoothing_convergence
TEST_ITERATIONS == 100

\* start and target as integers, run for n applications
SmoothCase(start, target, n) == [start |-> BFloat(start), target |-> BFloat(target), n |-> n]

\* the float just below 100 and a float between 75 and 76
BelowHundred == BFloat(100) - 2

OffInteger == BFloat(75) + 78644

SmoothCases ==
    {\* the cases of test_flicker.cpp
     SmoothCase(0, 100, TEST_ITERATIONS), SmoothCase(50, 50, TEST_ITERATIONS),
     SmoothCase(50, 100, TEST_ITERATIONS), SmoothCase(100, 50, TEST_ITERATIONS),
     SmoothCase(-1000, 1000, TEST_ITERATIONS), SmoothCase(1000, -1000, TEST_ITERATIONS),
     SmoothCase(100, 0, 1),
     \* the range of the engine: from the constructor's value and between
     \* the extreme targets
     SmoothCase(75, 60, TEST_ITERATIONS), SmoothCase(75, 119, TEST_ITERATIONS),
     SmoothCase(60, 119, TEST_ITERATIONS), SmoothCase(119, 60, TEST_ITERATIONS),
     \* values that are not integers
     [start |-> BelowHundred, target |-> BelowHundred, n |-> TEST_ITERATIONS],
     [start |-> OffInteger, target |-> OffInteger, n |-> TEST_ITERATIONS],
     [start |-> BelowHundred, target |-> BFloat(100), n |-> TEST_ITERATIONS],
     [start |-> OffInteger, target |-> BFloat(100), n |-> TEST_ITERATIONS]}

Smooth ==
    /\ iter < smCase.n
    /\ iter' = iter + 1
    /\ smoothedBefore' = smoothed
    /\ smoothed' = calculateSmoothedBrightness(smCase.target, smoothed)
    /\ UNCHANGED <<btnVars, now, apCmd, histVars, flickVars,
                   percent, length, count, countBefore, smCase, hueCase, hueResult,
                   frameQueue, frameOut, frameOutBefore,
                   ledArray, emitted, mapCase, mapResult>>

SmoothInit ==
    /\ Constructor
    /\ InitHistory
    /\ script = NoScript
    /\ SweepIdle
    /\ smCase \in SmoothCases
    /\ smoothed = smCase.start
    /\ smoothedBefore = smCase.start
    /\ iter = 0
    /\ HueIdle
    /\ FrameIdle
    /\ ArrayIdle
    /\ MapIdle

SmoothNext == Smooth

SpecSmooth == SmoothInit /\ [][SmoothNext]_vars

\* ------------------------------------------------------------------------
\* The hue conversion of applyFlicker(): base hue plus the hue shift drawn,
\* wrapped into 0 .. 359, then mapped to the 8-bit hue of CHSV.
\* ------------------------------------------------------------------------
\* hue->getVal(): the HomeKit hue, in degrees
BaseHues == 0 .. 360

\* random(FLICKER_HUE_MIN, FLICKER_HUE_MAX)
HueOffsets == FLICKER_HUE_MIN .. FLICKER_HUE_MAX - 1

ConvertHue ==
    /\ hueResult = NoHueResult
    /\ hueResult' = [flickerHue |-> WrapHue(hueCase.baseHue + hueCase.hueOffset),
                     finalHue   |-> finalHue(hueCase.baseHue, hueCase.hueOffset)]
    /\ UNCHANGED <<btnVars, now, apCmd, histVars, flickVars,
                   percent, length, count, countBefore,
                   smCase, smoothed, smoothedBefore, iter, hueCase,
                   frameQueue, frameOut, frameOutBefore,
                   ledArray, emitted, mapCase, mapResult>>

HueInit ==
    /\ Constructor
    /\ InitHistory
    /\ script = NoScript
    /\ SweepIdle
    /\ SmoothIdle
    /\ hueCase \in [baseHue : BaseHues, hueOffset : HueOffsets]
    /\ hueResult = NoHueResult
    /\ FrameIdle
    /\ ArrayIdle
    /\ MapIdle

HueNext == ConvertHue

SpecHue == HueInit /\ [][HueNext]_vars

\* ------------------------------------------------------------------------
\* The frame sweep: the frame of one animation tick for every brightness
\* percentage 0 .. 100 in turn, in the order of the fraction, from one
\* smoothing state and with power on or off.
\* ------------------------------------------------------------------------
\* calculateSmoothedBrightness() applied n times with a constant target
RECURSIVE SmoothRun(_, _, _)
SmoothRun(target, previous, n) ==
    IF n = 0 THEN previous
    ELSE SmoothRun(target, calculateSmoothedBrightness(target, previous), n - 1)

\* smoothing states loop() reaches at full brightness when every LED draws
\* the same variation in every tick: the constructor's midpoint, and 1, 3
\* and 12 ticks toward the lowest and toward the highest target
SettledStates ==
    {SmoothRun(TargetBrightness(variation),
               ((FLICKER_BRIGHTNESS_MIN + FLICKER_BRIGHTNESS_MAX) * BTick) \div 2, n) :
        variation \in {FLICKER_VARIATION_MIN, FLICKER_VARIATION_MAX - 1}, n \in {0, 1, 3, 12}}

\* x comes before y: smaller fraction, or same fraction and smaller percentage
Before(x, y) == x[1] < y[1] \/ (x[1] = y[1] /\ x[2] < y[2])

\* the brightness percentages 0 .. 100 in ascending order of their fraction
PercentsByFraction ==
    LET S == {<<LedCount(p, LED_LENGTH).fraction, p>> : p \in 0 .. 100}
    IN  [k \in 1 .. Cardinality(S) |->
            (CHOOSE x \in S : Cardinality({y \in S : Before(y, x)}) = k - 1)[2]]

FrameSweep(rnd) ==
    /\ frameQueue # <<>>
    /\ frameQueue' = Tail(frameQueue)
    /\ frameOutBefore' = frameOut
    /\ LET p   == Head(frameQueue)
           c   == LedCount(p, LED_LENGTH)
           out == Frame(power, p, rnd)
       IN  frameOut' = [percent |-> p, fullLEDs |-> c.fullLEDs, fraction |-> c.fraction,
                        leds |-> out.leds, previousBrightness |-> out.previousBrightness,
                        written |-> out.written]
    /\ UNCHANGED <<btnVars, now, apCmd, histVars, flickVars,
                   percent, length, count, countBefore,
                   smCase, smoothed, smoothedBefore, iter, hueCase, hueResult,
                   ledArray, emitted, mapCase, mapResult>>

FrameInit ==
    /\ power \in BOOLEAN
    /\ buttonState = "BTN_IDLE"
    /\ buttonStateTimer = U32(0)
    /\ buttonPressStartTime = U32(0)
    /\ buttonLastReading = HIGH
    /\ hue = DEFAULT_HUE
    /\ saturation = DEFAULT_SATURATION
    /\ brightness = DEFAULT_BRIGHTNESS
    /\ leds = AllBlack
    /\ \E state \in SettledStates :
          previousBrightness = [strip \in StripIdx |-> [i \in LedIdx |-> state]]
    /\ lastUpdate = U32(0)
    /\ InitHistory
    /\ script = NoScript
    /\ SweepIdle
    /\ SmoothIdle
    /\ HueIdle
    /\ frameQueue = PercentsByFraction
    /\ frameOut = NoFrame
    /\ frameOutBefore = NoFrame
    /\ ArrayIdle
    /\ MapIdle

FrameNext == \E rnd \in RandomDraws : FrameSweep(rnd)

SpecFrames == FrameInit /\ [][FrameNext]_vars

\* ------------------------------------------------------------------------
\* struct CandleLedArray (include/CandleLedArray.h), for a strip of
\* LED_LENGTH LEDs
\* ------------------------------------------------------------------------
\* the values random(0, 31) returns for the entries previousBrightness
\* [strip][i], one draw per entry
StartDraws ==
    {[strip \in StripIdx |-> [i \in LedIdx |-> 0]],
     [strip \in StripIdx |-> [i \in LedIdx |-> 30]],
     [strip \in StripIdx |-> [i \in LedIdx |-> IF strip = 0 THEN 30 ELSE 0]],
     [strip \in StripIdx |-> [i \in LedIdx |-> IF (strip + i) % 2 = 0 THEN 12 ELSE 30]]}

\* the constructor leaves the field brightness without a value
UninitBytes == {0, 255}

\* CandleLedArray::CandleLedArray()
CandleLedArray(draw, uninit) ==
    LET c == transformSetBrightness(LED_LENGTH, DEFAULT_BRIGHTNESS)
    IN  [state      |-> TRUE,
         length     |-> LED_LENGTH,
         hue        |-> Uint8(map(DEFAULT_HUE, 0, 360, 0, 255)),
         saturation |-> Uint8(map(DEFAULT_SATURATION, 0, 100, 0, 255)),
         brightness |-> uninit,
         fullLEDs   |-> c.fullLEDs,
         fraction   |-> c.fraction,
         previousBrightness |->
             [strip \in StripIdx |-> [i \in LedIdx |-> BFloat(70 + draw[strip][i])]],
         leds       |-> AllBlack,
         lastUpdate |-> U32(0)]

\* (uint8_t)(S * 2.55): the product is formed in double, where 2.55 is
\* slightly below 255/100; the product of 100 is 254.99999999999997, every
\* other whole S of 0 .. 100 gives the floor of S * 255 / 100
SaturationByte(S) == Uint8(IF S = 100 THEN 254 ELSE (S * 255) \div 100)

\* everything but the CandleLedArray object, the clock and the call counts
arrayRest ==
    <<btnVars, apCmd, samples, prevState, toggled, lowRun, highRun, heldFor, relHeld,
      holdMaxGap, excToggles, excFires, excStable, confirmedAt, pressedEntries,
      events, leftAt, script,
      brightness, hue, saturation, leds, previousBrightness, lastUpdate,
      ticked, touched, written, lastTickAt, tickGap,
      percent, length, count, countBefore, smCase, smoothed, smoothedBefore, iter,
      hueCase, hueResult, frameQueue, frameOut, frameOutBefore, mapCase, mapResult>>

\* CandleLedArray::SetPower()
SetPower(state) ==
    /\ updates < MaxUpdates
    /\ updates' = updates + 1
    /\ ledArray' = [ledArray EXCEPT !.state = state]
    /\ UNCHANGED <<arrayRest, now, clock, loops, emitted>>

\* CandleLedArray::SetValues() for whole H, S and V
SetValues(H, S, V) ==
    /\ updates < MaxUpdates
    /\ updates' = updates + 1
    /\ LET c == transformSetBrightness(ledArray.length, V)
       IN  ledArray' = [ledArray EXCEPT !.hue = Uint8(TruncDiv(H * 255, 360)),
                                        !.saturation = SaturationByte(S),
                                        !.brightness = Uint8(V),
                                        !.fullLEDs = c.fullLEDs,
                                        !.fraction = c.fraction]
    /\ UNCHANGED <<arrayRest, now, clock, loops, emitted>>

\* the stores and the colour of one LED of CandleLedArray::applyFlicker():
\* st holds the object and the LEDs lit so far; scaled is the int handed
\* to map()
ArrayLight(st, i, smoothedBrightness, scaled, full, rnd) ==
    LET flickerHue      == TruncMod(st.array.hue + rnd.hue[i] + 255, 255)
        mapped          == map(scaled, 0, 100, 0, 255)
        value           == Uint8(mapped)
        color           == CHSV(Uint8(flickerHue), st.array.saturation, value)
    IN  [array   |-> [st.array EXCEPT !.previousBrightness[0][i] = smoothedBrightness,
                                      !.previousBrightness[1][i] = smoothedBrightness,
                                      !.leds[0][i] = color,
                                      !.leds[1][i] = color],
         emitted |-> Append(st.emitted,
                            [i |-> i, full |-> full,
                             smoothedBrightness |-> smoothedBrightness,
                             mapped |-> mapped, value |-> value])]

\* CandleLedArray::applyFlicker(), body of the loop over the fully lit LEDs
ArrayFullLed(st, i, rnd) ==
    LET smoothedBrightness ==
            calculateSmoothedBrightness(TargetBrightness(rnd.variation[i]),
                                        st.array.previousBrightness[0][i])
    IN  ArrayLight(st, i, smoothedBrightness, ToInt(smoothedBrightness), TRUE, rnd)

\* CandleLedArray::applyFlicker(), the fractional LED at index fullLEDs
ArrayFractionalLed(st, rnd) ==
    LET i == st.array.fullLEDs
        smoothedBrightness ==
            calculateSmoothedBrightness(TargetBrightness(rnd.variation[i]),
                                        st.array.previousBrightness[0][i])
    IN  ArrayLight(st, i, smoothedBrightness,
                   ScaledBrightness(smoothedBrightness, st.array.fraction), FALSE, rnd)

RECURSIVE ArrayFullLeds(_, _, _)
ArrayFullLeds(st, i, rnd) ==
    IF i >= st.array.fullLEDs THEN st
    ELSE ArrayFullLeds(ArrayFullLed(st, i, rnd), i + 1, rnd)

\* CandleLedArray::applyFlicker()
ArrayApplyFlicker(st, rnd) ==
    LET afterFull == ArrayFullLeds(st, 0, rnd)
    IN  IF FractionAboveOnePercent(st.array.fraction) /\ st.array.fullLEDs < st.array.length
          THEN ArrayFractionalLed(afterFull, rnd)
          ELSE afterFull

\* CandleLedArray::On(), called dt ms after the previous call
On(dt, rnd) ==
    /\ loops < MaxLoops
    /\ loops' = loops + 1
    /\ now' = U32Add(now, dt)
    /\ clock' = clock + dt
    /\ IF ~U32Ge(U32Sub(now', ledArray.lastUpdate), UPDATE_INTERVAL)
         THEN /\ ledArray' = ledArray
              /\ emitted' = <<>>
         ELSE LET cleared == [ledArray EXCEPT !.lastUpdate = now', !.leds = AllBlack]
              IN  IF \/ ~ledArray.state
                     \/ ledArray.fullLEDs = 0 /\ FractionBelowOnePercent(ledArray.fraction)
                    THEN /\ ledArray' = cleared
                         /\ emitted' = <<>>
                    ELSE LET out == ArrayApplyFlicker([array |-> cleared, emitted |-> <<>>], rnd)
                         IN  /\ ledArray' = out.array
                             /\ emitted' = out.emitted
    /\ UNCHANGED <<arrayRest, updates>>

\* brightness a controller sets: two full LEDs with a fractional one, or all
ArrayBrightnesses == {37, 100}

ArrayInit ==
    /\ Constructor
    /\ InitHistory
    /\ script = NoScript
    /\ SweepIdle
    /\ SmoothIdle
    /\ HueIdle
    /\ FrameIdle
    /\ MapIdle
    /\ \E draw \in StartDraws, uninit \in UninitBytes :
          ledArray = CandleLedArray(draw, uninit)
    /\ emitted = <<>>

ArrayNext ==
    \/ \E dt \in LoopSteps, rnd \in RandomDraws : On(dt, rnd)
    \/ \E V \in ArrayBrightnesses : SetValues(DEFAULT_HUE, DEFAULT_SATURATION, V)
    \/ \E state \in BOOLEAN : SetPower(state)

SpecArray == ArrayInit /\ [][ArrayNext]_vars

\* ------------------------------------------------------------------------
\* The range mapping map(x, 0, 100, 0, 255), applied to x = 0, 1, .. 100
\* ------------------------------------------------------------------------
MapSweep ==
    /\ mapCase < 100
    /\ mapCase' = mapCase + 1
    /\ mapResult' = [value |-> map(mapCase', 0, 100, 0, 255), valueBefore |-> mapResult.value]
    /\ UNCHANGED <<btnVars, now, apCmd, histVars, flickVars,
                   percent, length, count, countBefore,
                   smCase, smoothed, smoothedBefore, iter, hueCase, hueResult,
                   frameQueue, frameOut, frameOutBefore, ledArray, emitted>>

MapNext == MapSweep

SpecMap == Init /\ [][MapNext]_vars

TypeOK ==
    /\ buttonState \in BtnStates
    /\ buttonLastReading \in BOOLEAN
    /\ power \in BOOLEAN
    /\ apCmd \in BOOLEAN
    /\ now \in (0 .. Limb - 1) \X (0 .. Limb - 1)
    /\ samples \in Nat
    /\ script = NoScript => samples <= MaxSamples
    /\ brightness \in 0 .. 100
    /\ hue \in 0 .. 360
    /\ saturation \in 0 .. 100
    /\ ticked \in BOOLEAN
    /\ touched \subseteq StripIdx \X LedIdx
    /\ loops \in 0 .. MaxLoops
    /\ updates \in 0 .. MaxUpdates
    /\ written.previousBrightness \in Seq(Int \X Int)
    /\ written.leds \in Seq(Int \X Int)
    /\ lastTickAt \in Int
    /\ tickGap \in Int
    /\ leftAt \in Int
    /\ lastUpdate \in (0 .. Limb - 1) \X (0 .. Limb - 1)
    /\ \A strip \in StripIdx, i \in LedIdx :
          /\ leds[strip][i].v \in 0 .. 255
          /\ previousBrightness[strip][i] \in Int
    /\ percent \in -1 .. 100
    /\ length \in StripLengths
    /\ iter \in 0 .. smCase.n
    /\ hueCase.baseHue \in BaseHues
    /\ hueResult.finalHue \in Int
    /\ frameQueue \in Seq(0 .. 100)
    /\ frameOut.percent \in -1 .. 100
\* ------------------------------------------------------------------------
\* Properties of the button state machine
\* ------------------------------------------------------------------------
\* every sample since the press was confirmed read active
HoldUnbroken == heldFor >= 0 /\ lowRun >= heldFor

\* C1: from a confirmed press, while every sample reads active, the
\* long-press action has fired exactly once from the first sample taken
\* LONG_PRESS_DURATION ms or more after confirmation onwards, and not at all
\* before it; the machine is then in BTN_LONG_PRESS_ACTIVE.
C1_LongPressExactlyOnce ==
    HoldUnbroken =>
        IF heldFor >= LONG_PRESS_DURATION
          THEN excFires = 1 /\ buttonState = "BTN_LONG_PRESS_ACTIVE"
          ELSE excFires = 0 /\ buttonState = "BTN_PRESSED" /\ ~apCmd

C1_Witness ==
    /\ HoldUnbroken
    /\ heldFor > LONG_PRESS_DURATION + DEBOUNCE_DELAY
    /\ prevState = "BTN_LONG_PRESS_ACTIVE"
    /\ buttonState = "BTN_LONG_PRESS_ACTIVE"
    /\ excFires = 1
    /\ ~apCmd

\* C2: an excursion away from BTN_IDLE toggles power only on its return to
\* BTN_IDLE: exactly once if it passed through BTN_PRESSED and the long-press
\* action did not fire, and not at all if the long-press action fired.
C2_ShortPressOncePerExcursion ==
    /\ buttonState # "BTN_IDLE" => excToggles = 0
    /\ buttonState = "BTN_IDLE" =>
          excToggles = (IF heldFor >= 0 /\ excFires = 0 THEN 1 ELSE 0)
    /\ excFires > 0 => excToggles = 0

C2_Witness ==
    /\ buttonState = "BTN_IDLE"
    /\ prevState = "BTN_DEBOUNCING_SHORT_RELEASE"
    /\ heldFor >= 0
    /\ excFires = 0
    /\ excToggles = 1
    /\ toggled

\* C3 (as stated): BTN_PRESSED is entered only from BTN_DEBOUNCING_PRESS,
\* after an unbroken active run of at least DEBOUNCE_DELAY ms; no event
\* happens without such a run.
C3_PressedOnlyFromDebouncingPress ==
    /\ (buttonState = "BTN_PRESSED" /\ prevState # "BTN_PRESSED") =>
          (prevState = "BTN_DEBOUNCING_PRESS" /\ lowRun >= DEBOUNCE_DELAY)
    /\ (toggled \/ apCmd) => excStable

\* C3 (amended): a press is confirmed (BTN_PRESSED entered from a state other
\* than BTN_DEBOUNCING_SHORT_RELEASE) only from BTN_DEBOUNCING_PRESS, when the
\* input has been sampled active without a break for at least DEBOUNCE_DELAY
\* ms since BTN_DEBOUNCING_PRESS was entered; the only other entry into
\* BTN_PRESSED is the bounce return from BTN_DEBOUNCING_SHORT_RELEASE of an
\* already confirmed press; no event happens without such a run.
C3_PressDebounce ==
    /\ buttonState = "BTN_DEBOUNCING_PRESS" =>
          (lowRun >= 0 /\ U32Sub(now, buttonStateTimer) = U32(lowRun))
    /\ (buttonState = "BTN_PRESSED"
            /\ prevState \notin {"BTN_PRESSED", "BTN_DEBOUNCING_SHORT_RELEASE"}) =>
          (prevState = "BTN_DEBOUNCING_PRESS" /\ lowRun >= DEBOUNCE_DELAY /\ heldFor = 0)
    /\ (buttonState = "BTN_PRESSED" /\ prevState = "BTN_DEBOUNCING_SHORT_RELEASE") =>
          (heldFor > 0 /\ buttonLastReading = LOW /\ excStable)
    /\ (toggled \/ apCmd) => excStable

C3_Witness ==
    /\ buttonState = "BTN_PRESSED"
    /\ prevState = "BTN_DEBOUNCING_PRESS"
    /\ lowRun >= DEBOUNCE_DELAY
    /\ heldFor = 0

\* C4: for the input active, inactive, active within the debounce window and
\* then active past it, BTN_PRESSED is entered exactly once, not before the
\* second active edge has been stable for DEBOUNCE_DELAY ms (the debounce
\* timer restarts at that edge); no event is emitted during the bounce, and
\* the only event is one power toggle, emitted once the later release has
\* been stable for DEBOUNCE_DELAY ms.
C4_PressBounceRejected ==
    script \in PressBounceScripts =>
        LET secondEdge == script.edges[3]
            release    == script.edges[4]
        IN  /\ pressedEntries <= 1
            /\ buttonState = "BTN_DEBOUNCING_PRESS" =>
                  U32Sub(now, buttonStateTimer) = U32(lowRun)
            /\ confirmedAt >= 0 =>
                  (confirmedAt >= secondEdge + DEBOUNCE_DELAY /\ pressedEntries = 1)
            /\ clock >= secondEdge + DEBOUNCE_DELAY + 2 * MaxPollStep => pressedEntries = 1
            /\ clock < release + DEBOUNCE_DELAY => (events = <<>> /\ power = TRUE)
            /\ events # <<>> =>
                  /\ Len(events) = 1
                  /\ events[1][1] = "ShortPress"
                  /\ events[1][2] >= release + DEBOUNCE_DELAY
            /\ clock >= ScenarioEnd =>
                  (Len(events) = 1 /\ power = FALSE /\ buttonState = "BTN_IDLE")

C4_Witness ==
    /\ script \in PressBounceScripts
    /\ clock >= ScenarioEnd
    /\ pressedEntries = 1
    /\ Len(events) = 1
    /\ events[1][1] = "ShortPress"

\* C5: a bounce returns to the prior confirmed state and emits nothing: an
\* inactive sample in BTN_DEBOUNCING_PRESS leads to BTN_IDLE, an active sample
\* in BTN_DEBOUNCING_SHORT_RELEASE to BTN_PRESSED, an active sample in
\* BTN_DEBOUNCING_LONG_RELEASE to BTN_LONG_PRESS_ACTIVE.
C5_BounceReturnsSilently ==
    /\ (prevState = "BTN_DEBOUNCING_PRESS" /\ buttonLastReading = HIGH) =>
          (buttonState = "BTN_IDLE" /\ ~toggled /\ ~apCmd)
    /\ (prevState = "BTN_DEBOUNCING_SHORT_RELEASE" /\ buttonLastReading = LOW) =>
          (buttonState = "BTN_PRESSED" /\ ~toggled /\ ~apCmd)
    /\ (prevState = "BTN_DEBOUNCING_LONG_RELEASE" /\ buttonLastReading = LOW) =>
          (buttonState = "BTN_LONG_PRESS_ACTIVE" /\ ~toggled /\ ~apCmd)

C5_Witness ==
    /\ prevState = "BTN_DEBOUNCING_LONG_RELEASE"
    /\ buttonLastReading = LOW
    /\ buttonState = "BTN_LONG_PRESS_ACTIVE"
    /\ excFires = 1

\* C6: power is toggled only by a call made in BTN_DEBOUNCING_SHORT_RELEASE
\* whose sample reads inactive and is taken at least DEBOUNCE_DELAY ms after
\* the sample that moved BTN_PRESSED to BTN_DEBOUNCING_SHORT_RELEASE, every
\* sample in between having read inactive.
C6_ReleaseDebounce ==
    toggled =>
        /\ prevState = "BTN_DEBOUNCING_SHORT_RELEASE"
        /\ buttonLastReading = HIGH
        /\ relHeld >= 0
        /\ heldFor - relHeld >= DEBOUNCE_DELAY
        /\ highRun >= heldFor - relHeld

C6_Witness ==
    /\ toggled
    /\ heldFor - relHeld >= DEBOUNCE_DELAY
    /\ highRun >= DEBOUNCE_DELAY

\* Outcome of the end-to-end scenario: nothing until the press settles about
\* DEBOUNCE_DELAY ms after the transition, then the long-press action at the
\* first sample LONG_PRESS_DURATION ms or more after the press settled, then
\* nothing on release (power is not toggled).
EndToEndOutcome ==
    /\ confirmedAt < 0 => events = <<>>
    /\ confirmedAt >= 0 =>
          /\ confirmedAt >= PressEdge + DEBOUNCE_DELAY
          /\ confirmedAt < PressEdge + DEBOUNCE_DELAY + 2 * MaxPollStep
          /\ clock < confirmedAt + LONG_PRESS_DURATION => events = <<>>
    /\ events # <<>> =>
          /\ Len(events) = 1
          /\ events[1][1] = "LongPress"
          /\ events[1][2] >= confirmedAt + LONG_PRESS_DURATION
          /\ events[1][2] < confirmedAt + LONG_PRESS_DURATION + MaxPollStep
    /\ power = TRUE
    /\ clock >= ScenarioEnd => (Len(events) = 1 /\ buttonState = "BTN_IDLE")

\* C7 (as stated): with DEBOUNCE_DELAY = 50 and LONG_PRESS_DURATION = 3000, an
\* input that goes active and is held for 3010 ms measured from that
\* transition, then goes inactive, produces: no event until the press
\* settles, then the long-press action, then no power toggle on release.
C7_EndToEndHoldFromTransition ==
    script = ScriptHoldFromEdge => EndToEndOutcome

\* C7 (amended): the same outcome holds when the 3010 ms hold is measured
\* from the confirmation of the press (the call that entered BTN_PRESSED,
\* about 50 ms after the transition) instead of from the transition.
C7_EndToEndHoldFromConfirmation ==
    script = ScriptHoldFromConfirm => EndToEndOutcome

C7_Witness ==
    /\ script = ScriptHoldFromConfirm
    /\ clock >= ScenarioEnd
    /\ buttonState = "BTN_IDLE"
    /\ Len(events) = 1
    /\ events[1][1] = "LongPress"
    /\ power = TRUE

\* C8: whenever power is toggled, the release was detected less than
\* LONG_PRESS_DURATION ms after the press was confirmed.
C8_ShortPressBelowThreshold ==
    toggled => (relHeld >= 0 /\ relHeld < LONG_PRESS_DURATION)

\* C9 (as stated): the long-press action fires only if every sample since the
\* press was confirmed read active.
C9_LongPressOnlyUnbrokenHold == apCmd => HoldUnbroken

\* C9 (amended): the long-press action fires only in BTN_PRESSED, on an
\* active sample taken at least LONG_PRESS_DURATION ms after the press was
\* confirmed, with no inactive run of DEBOUNCE_DELAY ms or more sampled in
\* between; a shorter inactive run (a release bounce) does not break the hold.
C9_LongPressWithoutConfirmedRelease ==
    apCmd =>
        /\ prevState = "BTN_PRESSED"
        /\ buttonLastReading = LOW
        /\ heldFor >= LONG_PRESS_DURATION
        /\ holdMaxGap < DEBOUNCE_DELAY
        /\ excToggles = 0

C9_Witness ==
    /\ apCmd
    /\ heldFor >= LONG_PRESS_DURATION
    /\ holdMaxGap >= 0
    /\ ~HoldUnbroken

\* C10: one call performs at most one of the power toggle and the
\* long-press action.
C10_AtMostOneEventPerCall == ~(toggled /\ apCmd)

C10_Witness == apCmd /\ prevState = "BTN_PRESSED" /\ ~toggled /\ excToggles = 0

\* ------------------------------------------------------------------------
\* C11.  The documentation of handlePowerButton() in include/CandleLight.h:
\* a new button state is accepted only after the reading has been stable for
\* DEBOUNCE_DELAY ms, and the power toggle is triggered only on the button
\* press (the HIGH->LOW transition), that is by the call that accepts the
\* press.  The code accepts states after a stable DEBOUNCE_DELAY, but it
\* toggles in the call that accepts the release: the second conjunct fails.
\* ------------------------------------------------------------------------
AcceptsPress == prevState = "BTN_DEBOUNCING_PRESS" /\ buttonState = "BTN_PRESSED"

AcceptsRelease ==
    /\ prevState \in {"BTN_DEBOUNCING_SHORT_RELEASE", "BTN_DEBOUNCING_LONG_RELEASE"}
    /\ buttonState = "BTN_IDLE"

C11_ToggleWhenPressAccepted ==
    /\ AcceptsPress => lowRun >= DEBOUNCE_DELAY
    /\ AcceptsRelease => highRun >= DEBOUNCE_DELAY
    /\ toggled => AcceptsPress /\ buttonLastReading = LOW

\* ------------------------------------------------------------------------
\* Properties of the animation frame
\* ------------------------------------------------------------------------
\* the LED count the frame of the last tick computed
FrameCount == LedCount(brightness, LED_LENGTH)

NothingLit == FrameCount.fullLEDs = 0 /\ FractionBelowOnePercent(FrameCount.fraction)

HasFractionalLed ==
    FractionAboveOnePercent(FrameCount.fraction) /\ FrameCount.fullLEDs < LED_LENGTH

InitialBrightness == ((FLICKER_BRIGHTNESS_MIN + FLICKER_BRIGHTNESS_MAX) * BTick) \div 2

\* C12.  Off frame: after every animation tick made with the power flag
\* false, or with fullLEDs = 0 and fraction < 0.01, every LED of both strips
\* is black.
C12_OffFrameBlack == ticked /\ (~power \/ NothingLit) => leds = AllBlack

\* a tick with power off, after the animation has run
C12_Witness ==
    /\ ticked /\ ~power
    /\ previousBrightness[0][0] # InitialBrightness
    /\ leds = AllBlack

\* C13.  Smoothing state is touched only for active indices: a step changes
\* previousBrightness[strip][i] only if it is an animation tick with power
\* on and i < fullLEDs, or i = fullLEDs with fraction > 0.01 and
\* fullLEDs < LED_LENGTH; an off tick, a tick with nothing lit, and a
\* rate-limited loop() call change no entry.
C13_SmoothingOnlyActiveIndices ==
    touched # {} =>
        LET c == FrameCount
        IN  \A e \in touched :
                /\ ticked /\ power
                /\ \/ e[2] < c.fullLEDs
                   \/ /\ e[2] = c.fullLEDs
                      /\ FractionAboveOnePercent(c.fraction)
                      /\ c.fullLEDs < LED_LENGTH

\* a tick at 37 %: LEDs 0, 1 and the fractional LED 2 have moved, LED 3 and
\* the top of the strip still hold the value the constructor gave them
C13_Witness ==
    /\ ticked /\ power /\ brightness = 37
    /\ touched = StripIdx \X (0 .. 2)
    /\ \A i \in 0 .. 2 : previousBrightness[0][i] # InitialBrightness
    /\ \A i \in 3 .. LED_LENGTH - 1 : previousBrightness[0][i] = InitialBrightness

\* C14.  Mirrored strips: after every animation tick (lit, power off, or
\* nothing lit) leds[0][i] = leds[1][i] for every i in 0 .. LED_LENGTH - 1.
C14_MirroredStrips == ticked => \A i \in LedIdx : leds[0][i] = leds[1][i]

\* a lit tick whose LEDs carry different colours along the strip
C14_Witness ==
    /\ ticked /\ power
    /\ leds[0][0] # Black /\ leds[0][1] # Black
    /\ leds[0][0] # leds[0][1]
    /\ leds[1][1] = leds[0][1]

\* ------------------------------------------------------------------------
\* Properties of the brightness-to-LED-count conversion
\* ------------------------------------------------------------------------
\* floor(r * CTick / 100) for r in 0 .. 99: the exact fraction r / 100 in
\* CTicks, rounded down
ExactFraction(r) == r * (CTick \div 100) + (r * (CTick % 100)) \div 100

\* 2^-20, the widest spacing of the floats below 16
FloatSpacing == CTick \div Pow2(20)

\* C15.  Monotonic LED count: for every percentage p in 0 .. 99 and
\* LED_LENGTH = 8, the count computed for p is at most the count computed
\* for p + 1, both as the raw value p * N / 100 and as fullLEDs.
C15_MonotonicLedCount ==
    percent >= 1 /\ length = LED_LENGTH
      => /\ countBefore.loop.numLEDsFloat <= count.loop.numLEDsFloat
         /\ countBefore.loop.fullLEDs <= count.loop.fullLEDs

\* 12 % lights no full LED, 13 % lights one
C15_Witness ==
    /\ percent = 13 /\ length = LED_LENGTH
    /\ countBefore.loop.fullLEDs = 0
    /\ count.loop.fullLEDs = 1
    /\ countBefore.loop.numLEDsFloat < count.loop.numLEDsFloat

\* C16.  Count and fraction ranges: for every percentage in 0 .. 100 and
\* every strip length, fullLEDs is in [0, N] and fraction is in [0, 1), in
\* DEV_CandleLight::loop() and in CandleLedArray::transformSetBrightness().
C16_CountAndFractionRanges ==
    percent >= 0
      => /\ count.loop.fullLEDs \in 0 .. length
         /\ count.loop.fraction >= 0 /\ count.loop.fraction < CTick
         /\ count.array.fullLEDs \in 0 .. length
         /\ count.array.fraction >= 0 /\ count.array.fraction < CTick

\* 99 % of 15 LEDs: 14 full LEDs and a fraction of 0.85
C16_Witness ==
    /\ percent = 99 /\ length = 15
    /\ count.loop.fullLEDs = 14 /\ count.array.fullLEDs = 14
    /\ count.loop.fraction > ExactFraction(84)
    /\ count.array.fraction < ExactFraction(86)

\* C17.  Brightness-to-LED mapping: for every percentage p in 0 .. 100,
\* fullLEDs = floor(p * N / 100) and fraction = p * N / 100 - fullLEDs, the
\* fraction being a float and so equal to the exact value to within the
\* float spacing; for N = 8, 0 % gives 0 LEDs, 50 % gives N / 2, 100 % gives
\* N with fraction 0, and 37 % gives 2 full LEDs with fraction 0.96.
C17_BrightnessToLedMapping ==
    percent >= 0
      => /\ count.loop.fullLEDs = (percent * length) \div 100
         /\ Abs(count.loop.fraction - ExactFraction((percent * length) % 100)) <= FloatSpacing
         /\ length = LED_LENGTH /\ percent = 0
              => count.loop.fullLEDs = 0 /\ count.loop.fraction = 0
         /\ length = LED_LENGTH /\ percent = 50
              => count.loop.fullLEDs = LED_LENGTH \div 2
         /\ length = LED_LENGTH /\ percent = 100
              => count.loop.fullLEDs = LED_LENGTH /\ count.loop.fraction = 0
         /\ length = LED_LENGTH /\ percent = 37
              => /\ count.loop.fullLEDs = 2
                 /\ Abs(count.loop.fraction - ExactFraction(96)) <= FloatSpacing

\* 37 % of 8 LEDs
C17_Witness ==
    /\ percent = 37 /\ length = LED_LENGTH
    /\ count.loop.fullLEDs = 2
    /\ count.loop.fraction > ExactFraction(95)

\* ------------------------------------------------------------------------
\* Properties of the smoothing
\* ------------------------------------------------------------------------
StrictlyBetween(x, a, b) == (a < x /\ x < b) \/ (b < x /\ x < a)

Between(x, a, b) == (a <= x /\ x <= b) \/ (b <= x /\ x <= a)

Max(a, b) == IF a > b THEN a ELSE b

\* spacing, in BTicks, of the floats at the larger of two magnitudes
Spacing(a, b) == Quantum(4 * Max(Abs(a), Abs(b))) \div 4

C19_FixedPoint ==
    iter >= 1 /\ smoothedBefore = smCase.target => smoothed = smoothedBefore

\* a value that is not an integer stays put
C19_Witness ==
    /\ iter >= 1
    /\ smCase.target = OffInteger /\ smoothedBefore = OffInteger
    /\ smoothed = OffInteger

\* applications after which the distance d (in BTicks), multiplied by 3/4
\* each time, has dropped below one unit
RECURSIVE IterationsToUnit(_)
IterationsToUnit(d) == IF d < BTick THEN 0 ELSE 1 + IterationsToUnit((3 * d) \div 4)

\* C20.  Convergence: with a constant target the smoothed value is within
\* 1 unit of the target after a number of applications that depends only
\* on the smoothing factor and the starting distance, and stays within 1
\* unit afterwards; from 0 toward 100 it is within 1.0 after 100
\* applications.
C20_Convergence ==
    /\ iter >= IterationsToUnit(Abs(smCase.start - smCase.target))
         => Abs(smoothed - smCase.target) <= BTick
    /\ smCase.start = 0 /\ smCase.target = BFloat(100) /\ iter = TEST_ITERATIONS
         => Abs(smoothed - smCase.target) <= BTick

\* the run of test_smoothing_convergence after its 100 applications
C20_Witness ==
    /\ smCase.start = 0 /\ smCase.target = BFloat(100)
    /\ iter = TEST_ITERATIONS
    /\ Abs(smoothed - smCase.target) <= BTick
\* ------------------------------------------------------------------------
\* Properties of loop(): rate limit, order of the button and the frame
\* ------------------------------------------------------------------------
\* number of writes of previousBrightness[e[1]][e[2]] in the last step
StoresAt(e) ==
    Cardinality({k \in DOMAIN written.previousBrightness : written.previousBrightness[k] = e})

\* C21: two consecutive animation ticks are at least UPDATE_INTERVAL ms of
\* true time apart, and a tick stores a smoothed value at most once in each
\* previousBrightness entry; a call that is not a tick stores none.
C21_RateLimit ==
    /\ ticked /\ tickGap >= 0 => tickGap >= UPDATE_INTERVAL
    /\ \A e \in StripIdx \X LedIdx : StoresAt(e) <= (IF ticked THEN 1 ELSE 0)

\* a second tick exactly UPDATE_INTERVAL after the first, reached through a
\* rate-limited call, with every entry stored once
C21_Witness ==
    /\ ticked /\ tickGap = UPDATE_INTERVAL /\ loops = 3
    /\ \A e \in StripIdx \X LedIdx : StoresAt(e) = 1

\* ------------------------------------------------------------------------
\* Properties of the button state machine, continued
\* ------------------------------------------------------------------------
\* C22: buttonState is always one of the six enumerated states, the switch
\* of handlePowerButton() has a successor for every state, sample and
\* elapsed time, and a call made in BTN_LONG_PRESS_ACTIVE that reads the
\* button active stays there, issues no command and leaves power alone.
C22_TotalAndStuckActive ==
    /\ buttonState \in BtnStates
    /\ \A currentReading \in {HIGH, LOW}, dt \in Steps :
          ENABLED handlePowerButton(currentReading, U32Add(now, dt))
    /\ prevState = "BTN_LONG_PRESS_ACTIVE" /\ buttonLastReading = LOW
          => buttonState = "BTN_LONG_PRESS_ACTIVE" /\ ~apCmd /\ ~toggled

\* the button is still held one more long-press duration after the action fired
C22_Witness ==
    /\ prevState = "BTN_LONG_PRESS_ACTIVE"
    /\ buttonState = "BTN_LONG_PRESS_ACTIVE"
    /\ lowRun >= 2 * LONG_PRESS_DURATION

\* ------------------------------------------------------------------------
\* Properties of the colour conversion
\* ------------------------------------------------------------------------
\* C23: for every base hue in 0 .. 360 and every hue shift that random()
\* can return, the wrapped hue is in 0 .. 359 and congruent to base hue plus
\* shift modulo 360, and map(flickerHue, 0, 360, 0, 255) is in 0 .. 255, so
\* that the conversion to uint8_t keeps it.
C23_HueWrap ==
    hueResult # NoHueResult =>
        /\ hueResult.flickerHue \in 0 .. 359
        /\ (hueResult.flickerHue - (hueCase.baseHue + hueCase.hueOffset)) % 360 = 0
        /\ hueResult.finalHue \in 0 .. 255
        /\ Uint8(hueResult.finalHue) = hueResult.finalHue

\* a sum below zero wraps to the top of the circle
C23_Witness ==
    /\ hueCase = [baseHue |-> 0, hueOffset |-> FLICKER_HUE_MIN]
    /\ hueResult = [flickerHue |-> 352, finalHue |-> 249]

\* ------------------------------------------------------------------------
\* Properties of loop(), continued
\* ------------------------------------------------------------------------
\* C24: every call of loop() hands its sample to the button machine, also
\* when the rate limit skips the animation (the reading the machine saved
\* is the reading of the latest call), and a frame is computed from the
\* power flag as the button left it in that call: the tick in which a short
\* press turns power off writes all black, the tick in which it turns power
\* on lights the strip.
C24_ButtonBeforeFrame ==
    /\ (buttonLastReading = LOW) = (lowRun >= 0)
    /\ ticked /\ toggled /\ ~power => leds = AllBlack
    /\ ticked /\ toggled /\ power /\ FrameCount.fullLEDs > 0 => leds # AllBlack

\* boot, press sampled in a rate-limited call at 30 ms and confirmed at
\* 90 ms, release sampled in a rate-limited call at 120 ms and confirmed by
\* the tick at 180 ms, which writes all black over the frame of 90 ms
C24_Witness ==
    /\ ticked /\ toggled /\ ~power
    /\ clock = 180
    /\ leds = AllBlack
    /\ previousBrightness[0][0] # InitialBrightness

\* ------------------------------------------------------------------------
\* Properties of the button state machine: the power flag, the hold timer
\* ------------------------------------------------------------------------
\* ShortPress events so far
ShortPresses == Cardinality({k \in DOMAIN events : events[k][1] = "ShortPress"})

\* C25: a call of handlePowerButton() changes the power flag exactly when
\* it moves BTN_DEBOUNCING_SHORT_RELEASE to BTN_IDLE, and then inverts it:
\* power is its initial value after an even number of short presses and the
\* opposite after an odd number; the call that fires the long-press action
\* leaves it alone.
C25_PowerFlagFrame ==
    /\ toggled = (prevState = "BTN_DEBOUNCING_SHORT_RELEASE" /\ buttonState = "BTN_IDLE")
    /\ power = (ShortPresses % 2 = 0)
    /\ apCmd => ~toggled

\* the second of two consecutive short presses restores the initial value
C25_Witness ==
    /\ toggled
    /\ ShortPresses = 2
    /\ power

\* C26: the long-press action fires no earlier than DEBOUNCE_DELAY +
\* LONG_PRESS_DURATION ms after the active sample that moved BTN_IDLE to
\* BTN_DEBOUNCING_PRESS, and buttonPressStartTime stays the time of the
\* press confirmation for the whole excursion, bounces of the release
\* included.
C26_LongPressFromConfirmation ==
    /\ apCmd => leftAt >= 0 /\ clock - leftAt >= DEBOUNCE_DELAY + LONG_PRESS_DURATION
    /\ heldFor >= 0 => U32Sub(now, buttonPressStartTime) = U32(heldFor)
    /\ prevState = "BTN_DEBOUNCING_SHORT_RELEASE" /\ buttonState = "BTN_PRESSED"
          => heldFor > relHeld /\ relHeld > 0

\* the action fires exactly DEBOUNCE_DELAY + LONG_PRESS_DURATION ms after
\* the machine left BTN_IDLE, on a hold that went through a release bounce
C26_Witness ==
    /\ apCmd
    /\ clock - leftAt = DEBOUNCE_DELAY + LONG_PRESS_DURATION
    /\ holdMaxGap >= 0
    /\ relHeld >= 0

\* ------------------------------------------------------------------------
\* Properties of applyFlicker(): ranges, the fractional LED, indices
\* ------------------------------------------------------------------------
\* a brightness within [FLICKER_BRIGHTNESS_MIN, FLICKER_BRIGHTNESS_MAX]
InBrightnessRange(x) ==
    BFloat(FLICKER_BRIGHTNESS_MIN) <= x /\ x <= BFloat(FLICKER_BRIGHTNESS_MAX)

\* random(FLICKER_VARIATION_MIN, FLICKER_VARIATION_MAX)
Variations == FLICKER_VARIATION_MIN .. FLICKER_VARIATION_MAX - 1

\* the values held in previousBrightness
SmoothingStates == {previousBrightness[strip][i] : strip \in StripIdx, i \in LedIdx}

\* C27: the clamped target of every variation random() can return is
\* within [FLICKER_BRIGHTNESS_MIN, FLICKER_BRIGHTNESS_MAX] (a property of
\* the draws alone, evaluated where no call of loop() has been made yet);
\* so is every previousBrightness entry in every reachable state; the value
\* channel map((int)state, 30, 120, 0, 255) of every entry is in 0 .. 255,
\* and the value stored for a full LED is that number, unchanged by the
\* conversion to uint8_t.
C27_BoundedSmoothing ==
    /\ loops = 0 => \A variation \in Variations :
                       InBrightnessRange(TargetBrightness(variation))
    /\ \A state \in SmoothingStates :
          /\ InBrightnessRange(state)
          /\ finalBrightness(state) \in 0 .. 255
    /\ ticked /\ power =>
          \A strip \in StripIdx, i \in 0 .. FrameCount.fullLEDs - 1 :
             leds[strip][i].v = finalBrightness(previousBrightness[strip][i])

\* after a third tick at full brightness the first LED has moved from the
\* constructor's midpoint toward the lowest target and is lit accordingly
C27_Witness ==
    /\ ticked /\ power /\ FrameCount.fullLEDs = LED_LENGTH
    /\ previousBrightness[0][0] < InitialBrightness - BFloat(8)
    /\ previousBrightness[0][1] > InitialBrightness + BFloat(20)
    /\ leds[0][0].v = finalBrightness(previousBrightness[0][0])
    /\ leds[0][0].v > 0

\* the frame has a fractional LED: power on, fraction > 0.01 and
\* fullLEDs < LED_LENGTH
FractionalCase(f) ==
    /\ f.percent >= 0
    /\ power
    /\ FractionAboveOnePercent(f.fraction)
    /\ f.fullLEDs < LED_LENGTH

\* the smoothed state and the value emitted at index fullLEDs
EdgeState(f) == f.previousBrightness[0][f.fullLEDs]

EdgeValue(f) == f.leds[0][f.fullLEDs].v

\* C28: a tick with fraction > 0.01 and fullLEDs < LED_LENGTH stores at
\* index fullLEDs of both strips the value
\* map(constrain((int)(state * fraction), MIN, MAX), MIN, MAX, 0, 255) of the
\* state it has just smoothed from the previous one; that value is in
\* 0 .. 255, at most the value a full LED gets from the same state, and
\* non-decreasing in the fraction.  A tick with fraction <= 0.01 or
\* fullLEDs = LED_LENGTH writes the full LEDs only.
C28_FractionalLedValue ==
    /\ FractionalCase(frameOut) =>
          LET i     == frameOut.fullLEDs
              state == EdgeState(frameOut)
              value == fractionalBrightness(state, frameOut.fraction)
          IN  /\ \E variation \in Variations :
                    state = calculateSmoothedBrightness(TargetBrightness(variation),
                                                        previousBrightness[0][i])
              /\ \A strip \in StripIdx : frameOut.leds[strip][i].v = value
              /\ value \in 0 .. 255
              /\ value <= finalBrightness(state)
    /\ /\ FractionalCase(frameOut)
       /\ FractionalCase(frameOutBefore)
       /\ EdgeState(frameOut) = EdgeState(frameOutBefore)
       => /\ frameOutBefore.fraction <= frameOut.fraction
          /\ EdgeValue(frameOutBefore) <= EdgeValue(frameOut)
    /\ frameOut.percent >= 0 /\ power /\ ~FractionalCase(frameOut) =>
          /\ Len(frameOut.written.previousBrightness) = NUM_STRIPS * frameOut.fullLEDs
          /\ Len(frameOut.written.leds) = NUM_STRIPS * (LED_LENGTH + frameOut.fullLEDs)
          /\ \A strip \in StripIdx, i \in LedIdx :
                i >= frameOut.fullLEDs => frameOut.leds[strip][i] = Black

\* a fractional LED brighter than that of the smaller fraction before it,
\* from the same smoothed state, and dimmer than a full LED
C28_Witness ==
    /\ FractionalCase(frameOut)
    /\ FractionalCase(frameOutBefore)
    /\ EdgeState(frameOut) = EdgeState(frameOutBefore)
    /\ frameOutBefore.fraction < frameOut.fraction
    /\ 0 < EdgeValue(frameOutBefore)
    /\ EdgeValue(frameOutBefore) < EdgeValue(frameOut)
    /\ EdgeValue(frameOut) < finalBrightness(EdgeState(frameOut))

\* the exact product of a brightness and a fraction is at most n
ProductAtMost(smoothedBrightness, fraction, n) ==
    LET d     == ProductDigits(smoothedBrightness, fraction)
        top   == d[6] * Radix + d[5]
        whole == top \div 32
    IN  \/ whole < n
        \/ /\ whole = n
           /\ top % 32 = 0
           /\ d[4] = 0 /\ d[3] = 0 /\ d[2] = 0 /\ d[1] = 0

\* C29: whenever state * fraction <= FLICKER_BRIGHTNESS_MIN the fractional
\* LED is emitted with value 0; the smoothed state never exceeds
\* FLICKER_BRIGHTNESS_MAX, so this is the case for every brightness
\* percentage whose fraction is at most 0.25.
C29_DarkFractionalEdge ==
    FractionalCase(frameOut) =>
        /\ EdgeState(frameOut) <= BFloat(FLICKER_BRIGHTNESS_MAX)
        /\ ProductAtMost(EdgeState(frameOut), frameOut.fraction, FLICKER_BRIGHTNESS_MIN)
              => \A strip \in StripIdx : frameOut.leds[strip][frameOut.fullLEDs] = Black
        /\ frameOut.fraction <= CTick \div 4
              => /\ ProductAtMost(EdgeState(frameOut), frameOut.fraction,
                                  FLICKER_BRIGHTNESS_MIN)
                 /\ EdgeValue(frameOut) = 0

\* fraction 0.24 of a state above 110: the product is below 30, the LED is dark
C29_Witness ==
    /\ FractionalCase(frameOut)
    /\ frameOut.fraction > CTick \div 5
    /\ frameOut.fraction <= CTick \div 4
    /\ EdgeState(frameOut) > BFloat(110)
    /\ frameOut.written.leds[Len(frameOut.written.leds)] = <<1, frameOut.fullLEDs>>
    /\ frameOut.leds[0][frameOut.fullLEDs] = Black

\* C30: every index at which a tick writes leds[..][i] or
\* previousBrightness[..][i] is within the arrays, for every brightness
\* percentage and fraction and with power on or off, and the fractional
\* index fullLEDs is written only when it is below LED_LENGTH.
C30_IndexSafety ==
    /\ \A k \in DOMAIN frameOut.written.leds :
          frameOut.written.leds[k] \in StripIdx \X LedIdx
    /\ \A k \in DOMAIN frameOut.written.previousBrightness :
          frameOut.written.previousBrightness[k] \in StripIdx \X LedIdx
    /\ \A k \in DOMAIN written.leds : written.leds[k] \in StripIdx \X LedIdx
    /\ \A k \in DOMAIN written.previousBrightness :
          written.previousBrightness[k] \in StripIdx \X LedIdx
    /\ frameOut.percent >= 0 /\ power /\ frameOut.fullLEDs = LED_LENGTH =>
          Len(frameOut.written.previousBrightness) = NUM_STRIPS * LED_LENGTH

\* full brightness: fullLEDs = LED_LENGTH, the last index written is
\* LED_LENGTH - 1
C30_Witness ==
    /\ power
    /\ frameOut.percent = 100
    /\ frameOut.fullLEDs = LED_LENGTH
    /\ frameOut.written.previousBrightness[NUM_STRIPS * LED_LENGTH] = <<1, LED_LENGTH - 1>>
    /\ Len(frameOut.written.leds) = 2 * NUM_STRIPS * LED_LENGTH

\* ------------------------------------------------------------------------
\* Properties of the button state machine: BTN_IDLE
\* ------------------------------------------------------------------------
\* C31: whenever buttonState is BTN_IDLE the reading saved by the previous
\* call is HIGH, so the edge test of BTN_IDLE depends on the current sample
\* alone: a call made in BTN_IDLE that reads LOW moves to
\* BTN_DEBOUNCING_PRESS.
C31_IdleLastReadingInactive ==
    /\ buttonState = "BTN_IDLE" => buttonLastReading = HIGH
    /\ samples > 0 /\ prevState = "BTN_IDLE" /\ buttonLastReading = LOW
          => buttonState = "BTN_DEBOUNCING_PRESS"

\* after a short press the machine is back in BTN_IDLE and the next active
\* sample starts a new debounce
C31_Witness ==
    /\ ShortPresses = 1
    /\ prevState = "BTN_IDLE"
    /\ buttonState = "BTN_DEBOUNCING_PRESS"
    /\ buttonLastReading = LOW

\* C32: once the samples read inactive without a break, the machine is in
\* BTN_IDLE at the latest with the first sample taken DEBOUNCE_DELAY ms or
\* more after the first inactive one, whatever state it was in; a call made
\* in BTN_IDLE that reads inactive stays in BTN_IDLE, issues no command and
\* leaves power alone.
C32_ReturnToIdle ==
    /\ highRun >= DEBOUNCE_DELAY => buttonState = "BTN_IDLE"
    /\ highRun > 0 /\ prevState = "BTN_DEBOUNCING_PRESS" => buttonState = "BTN_IDLE"
    /\ samples > 0 /\ prevState = "BTN_IDLE" /\ buttonLastReading = HIGH
          => buttonState = "BTN_IDLE" /\ ~apCmd /\ ~toggled

\* a long press released: BTN_IDLE is reached one debounce window after the
\* first inactive sample, and the next inactive sample stays there
C32_Witness ==
    /\ excFires = 1
    /\ prevState = "BTN_IDLE"
    /\ buttonState = "BTN_IDLE"
    /\ highRun = DEBOUNCE_DELAY + 25
    /\ ~apCmd /\ ~toggled

\* ------------------------------------------------------------------------
\* Properties of the elapsed-time tests across the wrap of millis()
\* ------------------------------------------------------------------------
\* the timestamp was taken before the counter wrapped and now is after it
AcrossWrap(stamp) == stamp[1] = Limb - 1 /\ now[1] = 0

\* C33: the unsigned differences now - buttonStateTimer, now -
\* buttonPressStartTime and millis() - lastUpdate equal the true elapsed
\* time since the timestamp was recorded, also when the counter wrapped in
\* between, and the transitions and ticks happen at the true thresholds:
\* a debounce state is left at the first sample DEBOUNCE_DELAY ms after its
\* stamp, the long press fires at the first active sample
\* LONG_PRESS_DURATION ms after the confirmation and not before, and a
\* call is a tick exactly when UPDATE_INTERVAL ms passed since the last one.
C33_ClockWraparound ==
    /\ buttonState = "BTN_DEBOUNCING_PRESS"
          => /\ U32Sub(now, buttonStateTimer) = U32(clock - leftAt)
             /\ clock - leftAt < DEBOUNCE_DELAY
    /\ buttonState \in {"BTN_DEBOUNCING_SHORT_RELEASE", "BTN_DEBOUNCING_LONG_RELEASE"}
          => /\ U32Sub(now, buttonStateTimer) = U32(highRun)
             /\ highRun < DEBOUNCE_DELAY
    /\ heldFor >= 0 => U32Sub(now, buttonPressStartTime) = U32(heldFor)
    /\ apCmd => heldFor >= LONG_PRESS_DURATION
    /\ prevState = "BTN_PRESSED" /\ buttonLastReading = LOW
          => (apCmd <=> heldFor >= LONG_PRESS_DURATION)
    /\ lastTickAt >= 0 => U32Sub(now, lastUpdate) = U32(clock - lastTickAt)
    /\ ticked /\ tickGap >= 0 => tickGap >= UPDATE_INTERVAL
    /\ loops > 0 /\ lastTickAt >= 0 /\ ~ticked => clock - lastTickAt < UPDATE_INTERVAL

\* the long press fires, exactly LONG_PRESS_DURATION ms after a confirmation
\* that was stamped before the wrap, at a call made after it
C33_Witness ==
    /\ apCmd
    /\ heldFor = LONG_PRESS_DURATION
    /\ AcrossWrap(buttonPressStartTime)
    /\ lastTickAt >= 0

\* ------------------------------------------------------------------------
\* Properties of CandleLedArray
\* ------------------------------------------------------------------------
\* C34: for every fully lit LED of CandleLedArray::applyFlicker() the int
\* returned by map((int)smoothedBrightness, 0, 100, 0, 255) is within
\* 0 .. 255, so the uint8_t value channel equals it, and of two LEDs the one
\* with the larger smoothed brightness never gets the smaller value.  The
\* code violates it: the smoothed brightness passes 100 (104.75 from a
\* start of 100 and a target of 119), map() returns 265 and the value
\* channel wraps to 9.
C34_ValueWithinByte ==
    /\ \A k \in DOMAIN emitted :
          emitted[k].full => emitted[k].mapped \in 0 .. 255 /\ emitted[k].value = emitted[k].mapped
    /\ \A j, k \in DOMAIN emitted :
          /\ emitted[j].full /\ emitted[k].full
          /\ emitted[j].smoothedBrightness <= emitted[k].smoothedBrightness
          => emitted[j].value <= emitted[k].value

\* C35: previousBrightness[0][i] equals previousBrightness[1][i] for every
\* index i, in DEV_CandleLight and in CandleLedArray, from construction
\* onwards.  The constructor of CandleLedArray violates it: it draws
\* random(0, 31) once for every entry of either strip.
C35_MirroredSmoothingState ==
    \A i \in LedIdx :
       /\ previousBrightness[0][i] = previousBrightness[1][i]
       /\ ledArray.previousBrightness[0][i] = ledArray.previousBrightness[1][i]

\* ------------------------------------------------------------------------
\* Properties of the range mapping
\* ------------------------------------------------------------------------
\* C36: map(x, 0, 100, 0, 255) sends 0 to 0 and 100 to 255, sends 50 to
\* within 1 of 127, returns for every x of 1 .. 100 at least what it
\* returns for x - 1, and returns a value in 0 .. 255 for every x of
\* 0 .. 100.
C36_RangeMapping ==
    /\ mapCase = 0 => mapResult.value = 0
    /\ mapCase = 100 => mapResult.value = 255
    /\ mapCase = 50 => Abs(mapResult.value - 127) <= 1
    /\ mapCase >= 1 => mapResult.valueBefore <= mapResult.value
    /\ mapCase >= 0 => mapResult.value \in 0 .. 255

\* the midpoint: 50 maps to 127, one step of 3 above the value for 49
C36_Witness ==
    /\ mapCase = 50
    /\ mapResult.value = 127
    /\ mapResult.valueBefore = 124

====
